---- MODULE Spec2Model ----
(***************************************************************************)
(* A model of QuakeOats' threading utilities (src/src/thread_utils.hpp):   *)
(* the mutex/condition-variable work_queue, the round-robin ticket counter *)
(* of thread_pool, and the thread_pool with its workers; and of its        *)
(* rasterizer: the classes Raster, Plane and Mesh of src/src/gfx.cc and    *)
(* the painter of the game (src/src/game.cc).                              *)
(*                                                                         *)
(* The module holds several specifications over one set of variables.      *)
(* Each specification drives one group of variables and leaves the other   *)
(* groups at their initial value:                                          *)
(*   SpecQ / FairSpecQ   one work_queue<T> used by several threads         *)
(*   SpecRR              outside threads drawing round-robin tickets from  *)
(*                       idle pools of every size                          *)
(*   SpecPool /          one thread_pool from its construction to the end  *)
(*   FairSpecPool        of its destruction, with the tasks it runs        *)
(*   SpecAll             submit_all calls on idle pools of every size      *)
(*   SpecDispatch        Raster::dispatch on one triangle                  *)
(*   SpecCallbacks       the callbacks of a Raster, assigned and invoked   *)
(*   SpecRaster          clip_rasterize and rasterize on one triangle      *)
(*   SpecPlane           one Plane<T> and the at() calls made on it        *)
(*   SpecLocal           the workers of a pool running tasks that submit   *)
(*                       to their local queue, and wait for what they      *)
(*                       submitted, until the pool is destroyed            *)
(*   SpecPaint /         the game's painter called by two rasterize tasks  *)
(*   FairSpecPaint                                                         *)
(*   SpecMesh            Mesh::dispatch called by the host on one mesh     *)
(*   SpecDraw            Mesh::draw on one mesh, and the workers that run  *)
(*                       the tasks it submits                              *)
(*   SpecObjects         Plane objects constructed, copied, moved from and *)
(*                       destroyed                                         *)
(*   SpecSampler         one Sampler::at call on a plane                   *)
(***************************************************************************)
EXTENDS Integers, Sequences, FiniteSets, TLC

(***************************************************************************)
(* Bounds of the model.                                                    *)
(***************************************************************************)
\* threads that use the one work_queue of SpecQ
NumQThreads == 3
\* distinct values that are ever enqueued in SpecQ
MaxValues == 2
\* most workers a pool has (SpecRR tries every size up to it)
MaxWorkers == 3
\* workers of the pool of SpecPool
PoolSize == 2
\* tasks that are ever submitted to a pool
MaxTasks == 3
\* threads outside the pool that submit to it, the constructing thread included
NumExtThreads == 2
\* the points of the model's host have coordinates in units of 1/Sub pixel
Sub == 4
\* the largest coordinate of a point of the model's host, in units of 1/Sub pixel
WorldLimit == 1048576
\* most dispatch calls that are in progress at a time (depth of the recursion)
MaxDepth == 4

(***************************************************************************)
(* Generic helpers.                                                        *)
(***************************************************************************)
Range(s) == {s[i] : i \in 1..Len(s)}
IsPrefix(s, t) == Len(s) <= Len(t) /\ SubSeq(t, 1, Len(s)) = s
Min(a, b) == IF a <= b THEN a ELSE b
NoDup(s) == \A i, j \in 1..Len(s) : s[i] = s[j] => i = j

(***************************************************************************)
(* State of the thread pool (its operations follow the work_queue's).      *)
(***************************************************************************)
VARIABLES
    worker_count,    \* thread_pool::worker_count
    next_worker,     \* thread_pool::next_worker, a uint32 as <<high, low>> 16-bit halves
    worker_ids,      \* thread_pool::worker_ids: set of <<thread, index>>
    ids_alive,       \* worker_ids is constructed and not yet destroyed
    wid,             \* per worker: thread_pool_worker::id
    external_tasks,  \* per worker: the deque of its work_queue<WorkerTask>
    local_tasks,     \* per worker: std::deque<WorkerTask> local_tasks
    promise_set,     \* per worker: thread_id_promise has its value
    wpc,             \* per worker: where its thread is (see WorkerPcs)
    cur,             \* per worker: the task get_next_task returned
    mainpc,          \* the constructing/destroying thread: [pc, i]
    epc,             \* per outside thread: [pc, w]: inside submit_task with ticket w
    task,            \* per task: how it was submitted, its future, who ran it
    lost,            \* tasks written into a worker that was already destroyed
    owed,            \* history, per worker: the tasks it held when its poison was enqueued
    batch            \* per thread: the locals of the submit_all call it is in or was last in

pvars == <<worker_count, next_worker, worker_ids, ids_alive, wid, external_tasks,
           local_tasks, promise_set, wpc, cur, mainpc, epc, task, lost, owed, batch>>

(***************************************************************************)
(* work_queue<T>  (thread_utils.hpp:17-84)                                 *)
(*                                                                         *)
(* Every member function takes `lock` for its whole body, so a body is one *)
(* atomic step.  The one place where the lock is given up inside a body is *)
(* cond.wait(l) in dequeue: the caller joins the condition variable's wait *)
(* set and releases the lock in one step, and when it is woken (by         *)
(* notify_one or spuriously) it takes the lock again in a later step and   *)
(* re-tests q.empty().                                                     *)
(***************************************************************************)
VARIABLES
    q,        \* std::deque<T> q: front is q[1]
    cond,     \* threads blocked in cond.wait(l)
    qpc,      \* per thread: "idle" | "wait" (in cond.wait) | "woken"
    ref,      \* per thread: the T& handed to try_dequeue / try_steal
    enqLog,   \* history: the values in the order their enqueue took effect
    rmLog,    \* history: the removals in the order they took effect: [val, op, th]
    lastOp    \* history: the last step taken and the state it saw

qvars == <<q, cond, qpc, ref, enqLog, rmLog, lastOp>>

(***************************************************************************)
(* State of a Raster (gfx.cc:330-664) and of the calls made on it.         *)
(***************************************************************************)
VARIABLES
    tri,        \* the triangle given to the top-level dispatch or to rasterize
    installed,  \* the pipeline callbacks the host assigned after Raster()
    thrown,     \* history: [call, what] of the last callback invoked, or NoThrow
    stack,      \* the frames of the dispatch calls in progress: [t, pc, t1]
    futures,    \* std::vector<std::future<void>>& futures: the triangle of each task
    bisected,   \* history: the triangles dispatch recursed on
    screened,   \* history: the stages of the points screen() was invoked on
    ras,        \* the locals of the rasterize call in progress
    painted     \* history: the painter calls of the rasterize call, in order: <<x, y>>

gvars == <<tri, installed, thrown, stack, futures, bisected, screened, ras, painted>>

(***************************************************************************)
(* State of a Plane<T> (gfx.cc:79-236).                                    *)
(***************************************************************************)
VARIABLES
    plane,      \* [width, height]: _width and _height
    stored,     \* the cells of _data written through at(): <<index, value>>
    cell        \* the last call of at(): its arguments and what came of it

hvars == <<plane, stored, cell>>

(***************************************************************************)
(* State of the game's frame (game.cc:131-139) and of the rasterize tasks  *)
(* that call its painter.                                                  *)
(***************************************************************************)
VARIABLES
    depth,      \* gfx::Plane<float> depth, per pixel
    color,      \* gfx::Plane<Pixel> screen, per pixel
    lock,       \* gfx::Plane<std::mutex> lock, per pixel: the task holding it
    ptask,      \* per task: the fragments it paints and where its painter call is
    access,     \* history: the last access to depth or screen: [task, px, op, held]
    verdict,    \* history, per task: what its last painter call saw and did
    pass,       \* the number of the Mesh::draw call in progress for this frame
    first       \* history: screen as the first Mesh::draw call left it

kvars == <<depth, color, lock, ptask, access, verdict, pass, first>>

(***************************************************************************)
(* State of a Mesh (gfx.cc:682-807), of the call made on it, and of the    *)
(* tasks that call submitted to the pool of the Raster.                    *)
(***************************************************************************)
VARIABLES
    mesh,       \* [primitive, indices]: _primitive and _indices
    raising,    \* per callback: the vertices on which the host's function raises
    mpc,        \* the call on the mesh: [fn, at, err]
    mi,         \* size_t i of the loop the call is in
    assembled,  \* history: the triangles handed to raster.dispatch, in order
    mtasks,     \* the tasks submitted, in order; futures[k] belongs to mtasks[k]
    running     \* per worker: the task it runs (an index of mtasks), or Waiting

mvars == <<mesh, raising, mpc, mi, assembled, mtasks, running>>

(***************************************************************************)
(* State of the Plane objects of a program and of the storage they point   *)
(* to (gfx.cc:117-153), and of a call of Sampler::at (gfx.cc:295-326).     *)
(***************************************************************************)
VARIABLES
    objs,       \* per Plane object: [state, data, owns, from]: _data and _owns
    heap,       \* per buffer of new T[]: [state, cells, frees]
    sample      \* the call of Sampler::at: its arguments and the cells it read

ovars == <<objs, heap, sample>>

\* the variables that no operation of the work_queue of SpecQ touches, those
\* that no operation of the thread pool touches, those that no operation of
\* the Raster touches, and those that no operation of the Plane touches
outside_queue == <<pvars, gvars, hvars, kvars, mvars, ovars>>
outside_pool == <<qvars, gvars, hvars, kvars, mvars, ovars>>
outside_raster == <<qvars, pvars, hvars, kvars, mvars, ovars>>
outside_plane == <<qvars, pvars, gvars, kvars, mvars, ovars>>
outside_frame == <<qvars, pvars, gvars, hvars, mvars, ovars>>
outside_mesh == <<qvars, pvars, gvars, hvars, kvars, ovars>>
outside_objects == <<qvars, pvars, gvars, hvars, kvars, mvars>>

\* no callback was invoked yet
NoThrow == [call |-> "none", set |-> FALSE, what |-> "none"]
\* no rasterize call is in progress
NoRas == [pc |-> "none"]
\* a Raster on which nothing was called yet, with the callbacks in `inst` assigned
RasterIdle(inst) ==
    /\ tri = <<>>
    /\ installed = inst
    /\ thrown = NoThrow
    /\ stack = <<>>
    /\ futures = <<>>
    /\ bisected = {}
    /\ screened = {}
    /\ ras = NoRas
    /\ painted = <<>>
\* Raster(): no callback assigned by the host
GInit == RasterIdle({})

\* a Plane of the given extent on which at() was not called yet
NoCell == [x |-> 0, y |-> 0, op |-> "none", failed |-> FALSE, index |-> <<0, 0>>,
           changed |-> FALSE]
PlaneNew(w, h) ==
    /\ plane = [width |-> w, height |-> h]
    /\ stored = {}
    /\ cell = NoCell
\* the plane of the specifications that use none
HInit == PlaneNew(1, 1)

\* the tasks that paint, and the extent of the game's three planes
NumPainters == 2
ScreenWidth == 2
ScreenHeight == 1
Painters == 1..NumPainters
ScreenPixels == (0..(ScreenWidth - 1)) \X (0..(ScreenHeight - 1))
\* the values of p.position.z of the model, and depth.clear(+1.0 / 0.0)
Zs == {1, 2, 20}
Cleared == 21
\* Pixel white of Game::iterate: red, green and blue are 0x11
White == 17
NoHolder == 0
NoAccess == [task |-> 0, px |-> <<0, 0>>, op |-> "none", held |-> TRUE]
NoVerdict == [px |-> <<0, 0>>, z |-> 0, c |-> 0, outcome |-> "none",
              before |-> <<0, 0>>, after |-> <<0, 0>>]
\* the frame after screen.clear(white) and depth.clear(+inf), the tasks having
\* the fragment lists `lists` to paint
FrameCleared(lists) ==
    /\ depth = [px \in ScreenPixels |-> Cleared]
    /\ color = [px \in ScreenPixels |-> White]
    /\ lock = [px \in ScreenPixels |-> NoHolder]
    /\ ptask = [t \in Painters |-> [pc |-> "idle", list |-> lists[t], i |-> 1]]
    /\ access = NoAccess
    /\ verdict = [t \in Painters |-> NoVerdict]
    /\ pass = 1
    /\ first = <<>>
\* a cleared frame into which nothing is drawn
KInit == FrameCleared([t \in Painters |-> <<>>])

\* the workers of the pool of the Raster, and a worker that is in get_next_task
RasterWorkers == 1..PoolSize
Waiting == 0
\* no callback of the host raises
NoneRaises == [screen |-> {}, painter |-> {}]
\* mesh m on which the host is about to call fn, the host's callbacks raising on
\* the vertices r, and the workers of the Raster waiting for tasks
MeshNew(m, r, fn) ==
    /\ mesh = m
    /\ raising = r
    /\ mpc = [fn |-> fn, at |-> IF fn = "none" THEN "idle" ELSE "enter", err |-> "none"]
    /\ mi = 0
    /\ assembled = <<>>
    /\ mtasks = <<>>
    /\ running = [w \in RasterWorkers |-> Waiting]
\* Mesh(vertices, indices) with an empty index buffer, on which nothing is called
MInit == MeshNew([primitive |-> "TriangleStrip", indices |-> <<>>], NoneRaises, "none")

\* the Plane objects a program declares and the buffers it can allocate
MaxObjects == 3
MaxBuffers == 3
Objects == 1..MaxObjects
Buffers == 1..MaxBuffers
\* an object before its constructor ran, and a buffer `new` did not return yet
NoObject == [state |-> "none", data |-> 0, owns |-> FALSE, from |-> "none"]
NoBuffer == [state |-> "unused", cells |-> 0, frees |-> 0]
\* no call of Sampler::at was made
NoSample == [pc |-> "none"]
\* no Plane object constructed, and the sampler's call being c
ObjectsNew(c) ==
    /\ objs = [o \in Objects |-> NoObject]
    /\ heap = [b \in Buffers |-> NoBuffer]
    /\ sample = c
OInit == ObjectsNew(NoSample)

QThreads == 1..NumQThreads
Values == 1..MaxValues
\* a T that holds no enqueued value (a default-constructed / moved-from T)
NoValue == 0

\* std::deque members used by work_queue
q_empty(s) == Len(s) = 0
q_push_back(s, v) == Append(s, v)
\* mutant: front() answering the newest element
q_front_newest(s) == s[Len(s)]
q_front(s) == s[1]
q_pop_front(s) == SubSeq(s, 2, Len(s))
\* mutant: back() answering the oldest element
q_back_oldest(s) == s[1]
q_back(s) == s[Len(s)]
\* mutant: pop_back() left out
q_pop_back_omitted(s) == s
q_pop_back(s) == SubSeq(s, 1, Len(s) - 1)

OpRec(op, t, ok, v, qb, rb) ==
    [op |-> op, th |-> t, ok |-> ok, val |-> v, qBefore |-> qb, refBefore |-> rb]

RmRec(v, op, t) == [val |-> v, op |-> op, th |-> t]

QInit ==
    /\ q = <<>>
    /\ cond = {}
    /\ qpc = [t \in QThreads |-> "idle"]
    /\ ref = [t \in QThreads |-> NoValue]
    /\ enqLog = <<>>
    /\ rmLog = <<>>
    /\ lastOp = OpRec("none", 0, FALSE, NoValue, <<>>, NoValue)

\* mutant: enqueue without its cond.notify_one()
notify_omitted == UNCHANGED <<cond, qpc>>

\* cond.notify_one(): wakes one thread of the wait set, if there is one
notify_one ==
    IF cond = {}
    THEN UNCHANGED <<cond, qpc>>
    ELSE \E w \in cond :
            /\ cond' = cond \ {w}
            /\ qpc' = [qpc EXCEPT ![w] = "woken"]

\* void enqueue(T&& t)
enqueue(t, v) ==
    /\ qpc[t] = "idle"
    /\ v \notin Range(enqLog)
    /\ q' = q_push_back(q, v)
    /\ notify_one
    /\ enqLog' = Append(enqLog, v)
    /\ lastOp' = OpRec("enqueue", t, TRUE, v, q, ref[t])
    /\ UNCHANGED <<ref, rmLog>>
    /\ UNCHANGED outside_queue

\* the tail of dequeue() once q is not empty: r = move(q.front()); q.pop_front(); return r
dequeue_take(t, op) ==
    /\ q' = q_pop_front(q)
    /\ rmLog' = Append(rmLog, RmRec(q_front(q), "dequeue", t))
    /\ lastOp' = OpRec(op, t, TRUE, q_front(q), q, ref[t])

\* T dequeue(): the call up to its first cond.wait(l), or to its return
dequeue(t) ==
    /\ qpc[t] = "idle"
    /\ IF q_empty(q)
       THEN /\ cond' = cond \cup {t}
            /\ qpc' = [qpc EXCEPT ![t] = "wait"]
            /\ lastOp' = OpRec("wait", t, FALSE, NoValue, q, ref[t])
            /\ UNCHANGED <<q, rmLog>>
       ELSE /\ dequeue_take(t, "dequeue")
            /\ UNCHANGED <<cond, qpc>>
    /\ UNCHANGED <<ref, enqLog>>
    /\ UNCHANGED outside_queue

\* cond.wait(l) returning without a notify_one (std::condition_variable allows it)
spurious_wakeup(t) ==
    /\ qpc[t] = "wait"
    /\ cond' = cond \ {t}
    /\ qpc' = [qpc EXCEPT ![t] = "woken"]
    /\ lastOp' = OpRec("wakeup", t, FALSE, NoValue, q, ref[t])
    /\ UNCHANGED <<q, ref, enqLog, rmLog>>
    /\ UNCHANGED outside_queue

\* dequeue() after cond.wait(l) returned: the lock is held again, while(q.empty()) re-tested
dequeue_wake(t) ==
    /\ qpc[t] = "woken"
    /\ IF q_empty(q)
       THEN /\ cond' = cond \cup {t}
            /\ qpc' = [qpc EXCEPT ![t] = "wait"]
            /\ lastOp' = OpRec("wait", t, FALSE, NoValue, q, ref[t])
            /\ UNCHANGED <<q, rmLog>>
       ELSE /\ dequeue_take(t, "dequeue_wake")
            /\ cond' = cond
            /\ qpc' = [qpc EXCEPT ![t] = "idle"]
    /\ UNCHANGED <<ref, enqLog>>
    /\ UNCHANGED outside_queue

\* bool try_dequeue(T& ref)
try_dequeue(t) ==
    /\ qpc[t] = "idle"
    /\ IF q_empty(q)
       THEN /\ lastOp' = OpRec("try_dequeue", t, FALSE, NoValue, q, ref[t])
            /\ UNCHANGED <<q, ref, rmLog>>
       ELSE /\ ref' = [ref EXCEPT ![t] = q_front(q)]
            /\ q' = q_pop_front(q)
            /\ rmLog' = Append(rmLog, RmRec(q_front(q), "try_dequeue", t))
            /\ lastOp' = OpRec("try_dequeue", t, TRUE, q_front(q), q, ref[t])
    /\ UNCHANGED <<cond, qpc, enqLog>>
    /\ UNCHANGED outside_queue

\* bool try_steal(T& ref)
try_steal(t) ==
    /\ qpc[t] = "idle"
    /\ IF q_empty(q)
       THEN /\ lastOp' = OpRec("try_steal", t, FALSE, NoValue, q, ref[t])
            /\ UNCHANGED <<q, ref, rmLog>>
       ELSE /\ ref' = [ref EXCEPT ![t] = q_back(q)]
            /\ q' = q_pop_back(q)
            /\ rmLog' = Append(rmLog, RmRec(q_back(q), "try_steal", t))
            /\ lastOp' = OpRec("try_steal", t, TRUE, q_back(q), q, ref[t])
    /\ UNCHANGED <<cond, qpc, enqLog>>
    /\ UNCHANGED outside_queue

QNext ==
    \E t \in QThreads :
        \/ \E v \in Values : enqueue(t, v)
        \/ dequeue(t)
        \/ spurious_wakeup(t)
        \/ dequeue_wake(t)
        \/ try_dequeue(t)
        \/ try_steal(t)

(***************************************************************************)
(* thread_pool and thread_pool_worker  (thread_utils.hpp:86-278)           *)
(*                                                                         *)
(* Threads are named <<"pool", w>> (the std::thread of worker w) and       *)
(* <<"ext", n>> (threads outside the pool; <<"ext", 0>> is the thread that *)
(* constructs and destroys the pool).  A WorkerTask is a task number in    *)
(* 1..MaxTasks, or NoValue for the empty packaged_task that ~worker        *)
(* enqueues.                                                               *)
(***************************************************************************)
WorkerIdx == 0..(MaxWorkers - 1)
Workers == 0..(worker_count - 1)
Tasks == 1..MaxTasks
ExtThreads == {<<"ext", n>> : n \in 0..(NumExtThreads - 1)}
MainThread == <<"ext", 0>>
PoolThread(w) == <<"pool", w>>
\* std::nullopt of std::optional<std::uint32_t>
nullopt == -1
WorkerPcs == {"none", "start", "loop", "wait", "woken", "run", "batch", "blocked", "ret",
              "exited", "destroyed"}
\* the threads that can call into the pool
AllThreads == ExtThreads \cup {PoolThread(w) : w \in WorkerIdx}
\* the entry of `batch` for a thread that never called submit_all
NoBatch == [pc |-> "none", inside |-> FALSE, current |-> nullopt, thread |-> nullopt,
            tasks |-> <<>>, res |-> <<>>]

\* std::uint32_t arithmetic on <<high, low>> halves of Half = 2^16 each
Half == 65536
U32(n) == <<n \div Half, n % Half>>
U32Max == <<Half - 1, Half - 1>>
\* mutant: an increment that is lost (a load and a store in place of fetch_add)
u32_inc_lost(c) == c
\* mutant: an increment that saturates instead of wrapping
u32_inc_saturating(c) == IF c = U32Max THEN c
                         ELSE IF c[2] + 1 < Half THEN <<c[1], c[2] + 1>> ELSE <<c[1] + 1, 0>>
\* c + 1 in std::uint32_t
u32_inc(c) == IF c[2] + 1 < Half THEN <<c[1], c[2] + 1>> ELSE <<(c[1] + 1) % Half, 0>>
\* c % n in std::uint32_t, for 1 <= n < Half
u32_mod(c, n) == ((c[1] % n) * (Half % n) + (c[2] % n)) % n

\* the entry of `task` for a task that was not submitted yet
NoTask == [how |-> "none", by |-> MainThread, target |-> nullopt, ticket |-> U32(0),
           live |-> FALSE, kind |-> "leaf", fut |-> "none", val |-> NoValue, execBy |-> <<>>,
           parent |-> NoValue]
Submitted == {t \in Tasks : task[t].how # "none"}
FreshTask == CHOOSE t \in Tasks : t \notin Submitted /\ \A u \in Tasks : u < t => u \in Submitted
TaskKinds == {"leaf", "spawn"}
\* what the callable of task t returns
TaskResult(t) == 68 + t

\* the state right after the members of thread_pool are initialised, before the
\* constructor body creates the workers
PoolFields(n, c) ==
    /\ worker_count = n
    /\ next_worker = c
    /\ worker_ids = {}
    /\ ids_alive = TRUE
    /\ wid = [w \in WorkerIdx |-> nullopt]
    /\ external_tasks = [w \in WorkerIdx |-> <<>>]
    /\ local_tasks = [w \in WorkerIdx |-> <<>>]
    /\ promise_set = [w \in WorkerIdx |-> FALSE]
    /\ wpc = [w \in WorkerIdx |-> "none"]
    /\ cur = [w \in WorkerIdx |-> NoValue]
    /\ mainpc = [pc |-> "create", i |-> 0]
    /\ epc = [e \in ExtThreads |-> [pc |-> "idle", w |-> nullopt]]
    /\ task = [t \in Tasks |-> NoTask]
    /\ lost = {}
    /\ owed = [w \in WorkerIdx |-> {}]
    /\ batch = [th \in AllThreads |-> NoBatch]

\* thread_pool(size): next_worker.store(0)
PInit == PoolFields(PoolSize, U32(0))

\* constructor, first loop: workers.push_back(make_unique<thread_pool_worker>(i)),
\* whose constructor starts the thread
ctor_create ==
    /\ mainpc.pc = "create"
    /\ IF mainpc.i < worker_count
       THEN /\ wid' = [wid EXCEPT ![mainpc.i] = mainpc.i]
            /\ wpc' = [wpc EXCEPT ![mainpc.i] = "start"]
            /\ mainpc' = [mainpc EXCEPT !.i = mainpc.i + 1]
       ELSE /\ mainpc' = [pc |-> "collect", i |-> 0]
            /\ UNCHANGED <<wid, wpc>>
    /\ UNCHANGED <<worker_count, next_worker, worker_ids, ids_alive, external_tasks,
                   local_tasks, promise_set, cur, epc, task, lost, owed>>
    /\ UNCHANGED <<batch, outside_pool>>

\* constructor, second loop: future.wait(); worker_ids.insert({future.get(), i})
ctor_collect ==
    /\ mainpc.pc = "collect"
    /\ IF mainpc.i < worker_count
       THEN /\ promise_set[mainpc.i]
            /\ worker_ids' = worker_ids \cup {<<PoolThread(mainpc.i), mainpc.i>>}
            /\ mainpc' = [mainpc EXCEPT !.i = mainpc.i + 1]
       ELSE /\ mainpc' = [pc |-> "live", i |-> 0]
            /\ UNCHANGED worker_ids
    /\ UNCHANGED <<worker_count, next_worker, ids_alive, wid, external_tasks,
                   local_tasks, promise_set, wpc, cur, epc, task, lost, owed>>
    /\ UNCHANGED <<batch, outside_pool>>

\* run(): thread_id_promise.set_value(std::this_thread::get_id())
worker_start(w) ==
    /\ wpc[w] = "start"
    /\ promise_set' = [promise_set EXCEPT ![w] = TRUE]
    /\ wpc' = [wpc EXCEPT ![w] = "loop"]
    /\ UNCHANGED <<worker_count, next_worker, worker_ids, ids_alive, wid, external_tasks,
                   local_tasks, cur, mainpc, epc, task, lost, owed>>
    /\ UNCHANGED <<batch, outside_pool>>

\* worker_ids.find(thread): the index mapped to the thread, or nullopt
ids_find(th) ==
    IF \E p \in worker_ids : p[1] = th
    THEN (CHOOSE p \in worker_ids : p[1] = th)[2]
    ELSE nullopt

\* current_tid() called on thread th: the values it can return.  Once worker_ids
\* is destroyed the lookup reads a destroyed std::map (undefined behaviour): it
\* may still find the entry or miss it.
current_tid(th) ==
    IF ids_alive THEN {ids_find(th)} ELSE {ids_find(th), nullopt}

\* get_next_worker(): next_worker.fetch_add(1) % worker_count
get_next_worker == u32_mod(next_worker, worker_count)

\* queue_task(t) on worker w: external_tasks.enqueue(t), i.e. push_back and
\* notify_one, which wakes the owner if it waits.  A worker that was already
\* destroyed is a dangling pointer: the task ends in freed storage.
\* The three operators give the queues, the workers' places and the lost tasks
\* after the call.
queue_task_q(w, t) ==
    IF wpc[w] = "destroyed" THEN external_tasks
    ELSE [external_tasks EXCEPT ![w] = q_push_back(@, t)]
queue_task_pc(w) == [wpc EXCEPT ![w] = IF @ = "wait" THEN "woken" ELSE @]
queue_task_lost(w, t) == IF wpc[w] = "destroyed" THEN lost \cup {t} ELSE lost

queue_task(w, t) ==
    /\ external_tasks' = queue_task_q(w, t)
    /\ wpc' = queue_task_pc(w)
    /\ lost' = queue_task_lost(w, t)

\* mutant: the task is pushed on the local queue of the next worker
queue_local_task_of_neighbour(w, t) ==
    local_tasks' = [local_tasks EXCEPT ![(w + 1) % worker_count] = q_push_back(@, t)]
\* queue_local_task(t) on worker w
queue_local_task(w, t) ==
    local_tasks' = [local_tasks EXCEPT ![w] = q_push_back(@, t)]

\* history: the task whose callable is running on thread th, if th is a worker's
Running(th) == IF th \in ExtThreads THEN NoValue ELSE cur[th[2]]

\* the packaged_task and its future that a submission creates
NewTask(how, th, target, ticket, kind) ==
    [how |-> how, by |-> th, target |-> target, ticket |-> ticket,
     live |-> (mainpc.pc = "live"), kind |-> kind, fut |-> "pending",
     val |-> NoValue, execBy |-> <<>>, parent |-> Running(th)]

\* submit_task_for(tid, t) called by a thread outside the pool
submit_task_for(e, tid, kind) ==
    /\ mainpc.pc = "live"
    /\ epc[e].pc = "idle"
    /\ Submitted # Tasks
    /\ tid \in Workers
    /\ task' = [task EXCEPT ![FreshTask] = NewTask("for", e, tid, U32(0), kind)]
    /\ queue_task(tid, FreshTask)
    /\ UNCHANGED <<worker_count, next_worker, worker_ids, ids_alive, wid, local_tasks,
                   promise_set, cur, mainpc, epc, owed>>
    /\ UNCHANGED <<batch, outside_pool>>

\* submit_task(t, allow_local) called by a thread outside the pool, first half:
\* current_tid() is nullopt for it, so get_next_worker() draws a ticket
submit_task_ticket(e) ==
    /\ mainpc.pc = "live"
    /\ epc[e].pc = "idle"
    /\ Submitted # Tasks
    /\ nullopt \in current_tid(e)
    /\ epc' = [epc EXCEPT ![e] = [pc |-> "ticket", w |-> get_next_worker]]
    /\ next_worker' = u32_inc(next_worker)
    /\ task' = [task EXCEPT ![FreshTask] = NewTask("drawn", e, get_next_worker, next_worker, "leaf")]
    /\ UNCHANGED <<worker_count, worker_ids, ids_alive, wid, external_tasks, local_tasks,
                   promise_set, wpc, cur, mainpc, lost, owed>>
    /\ UNCHANGED <<batch, outside_pool>>

\* the task whose ticket outside thread e holds
Drawn(e) == CHOOSE t \in Tasks : task[t].how = "drawn" /\ task[t].by = e

\* submit_task, second half: submit_task_for(ticket, t)
submit_task_enqueue(e, kind) ==
    /\ epc[e].pc = "ticket"
    /\ epc' = [epc EXCEPT ![e] = [pc |-> "idle", w |-> nullopt]]
    /\ task' = [task EXCEPT ![Drawn(e)].how = "rr", ![Drawn(e)].kind = kind]
    /\ queue_task(epc[e].w, Drawn(e))
    /\ UNCHANGED <<worker_count, next_worker, worker_ids, ids_alive, wid, local_tasks,
                   promise_set, cur, mainpc, owed>>
    /\ UNCHANGED <<batch, outside_pool>>

\* mutant: a worker that serves its neighbour's external queue
dequeue_source_neighbour(w) == (w + 1) % worker_count
\* which worker's external queue worker w dequeues from: its own
dequeue_source(w) == w

\* get_next_task() and the validity test of run(): the front of the local queue
\* if there is one, else external_tasks.dequeue(), which may wait; an invalid
\* (empty) task ends run()
take(w, t) ==
    /\ cur' = [cur EXCEPT ![w] = t]
    /\ wpc' = [wpc EXCEPT ![w] = IF t = NoValue THEN "exited" ELSE "run"]

\* mutant: the local queue is looked at only when the external queue is empty
external_first(w) ==
    wpc[w] = "loop" /\ ~q_empty(local_tasks[w]) /\ q_empty(external_tasks[w])
\* `if(!local_tasks.empty())` at the entry of get_next_task (a worker that was
\* woken is past it, inside external_tasks.dequeue())
local_first(w) == wpc[w] = "loop" /\ ~q_empty(local_tasks[w])

get_next_task(w) ==
    /\ wpc[w] \in {"loop", "woken"}
    /\ IF local_first(w)
       THEN /\ take(w, q_front(local_tasks[w]))
            /\ local_tasks' = [local_tasks EXCEPT ![w] = q_pop_front(@)]
            /\ UNCHANGED external_tasks
       ELSE /\ IF q_empty(external_tasks[dequeue_source(w)])
               THEN /\ wpc' = [wpc EXCEPT ![w] = "wait"]
                    /\ UNCHANGED <<cur, external_tasks>>
               ELSE /\ take(w, q_front(external_tasks[dequeue_source(w)]))
                    /\ external_tasks' =
                         [external_tasks EXCEPT ![dequeue_source(w)] = q_pop_front(@)]
            /\ UNCHANGED local_tasks
    /\ UNCHANGED <<worker_count, next_worker, worker_ids, ids_alive, wid, promise_set,
                   mainpc, epc, task, lost, owed>>
    /\ UNCHANGED <<batch, outside_pool>>

\* cond.wait(l) of external_tasks.dequeue() returning without a notify_one
worker_spurious_wakeup(w) ==
    /\ wpc[w] = "wait"
    /\ wpc' = [wpc EXCEPT ![w] = "woken"]
    /\ UNCHANGED <<worker_count, next_worker, worker_ids, ids_alive, wid, external_tasks,
                   local_tasks, promise_set, cur, mainpc, epc, task, lost, owed>>
    /\ UNCHANGED <<batch, outside_pool>>

\* mutant: the future made ready without the callable's result
complete_without_result(w) ==
    [task EXCEPT ![cur[w]].fut = "ready"]

\* the packaged_task stores what the callable returned and makes the future ready
complete(w) ==
    [task EXCEPT ![cur[w]].fut = "ready", ![cur[w]].val = TaskResult(cur[w])]

\* t(id) for a task that submits nothing: the callable runs and returns
run_leaf(w) ==
    /\ wpc[w] = "run"
    /\ task[cur[w]].kind = "leaf"
    /\ task' = [complete(w) EXCEPT ![cur[w]].execBy = Append(@, <<w, wid[w]>>)]
    /\ wpc' = [wpc EXCEPT ![w] = "loop"]
    /\ cur' = [cur EXCEPT ![w] = NoValue]
    /\ UNCHANGED <<worker_count, next_worker, worker_ids, ids_alive, wid, external_tasks,
                   local_tasks, promise_set, mainpc, epc, lost, owed>>
    /\ UNCHANGED <<batch, outside_pool>>

\* t(id) for a task whose callable calls p.submit_task(child) (allow_local = true):
\* the call, made on the worker's thread.  With every task number in use the
\* callable submits nothing.
run_spawn(w) ==
    /\ wpc[w] = "run"
    /\ task[cur[w]].kind = "spawn"
    /\ IF Submitted = Tasks
       THEN /\ task' = [task EXCEPT ![cur[w]].execBy = Append(@, <<w, wid[w]>>)]
            /\ wpc' = [wpc EXCEPT ![w] = "ret"]
            /\ UNCHANGED <<next_worker, external_tasks, local_tasks, lost>>
       ELSE \E tid \in current_tid(PoolThread(w)), kind \in TaskKinds :
            IF tid # nullopt
            THEN /\ task' = [task EXCEPT
                        ![cur[w]].execBy = Append(@, <<w, wid[w]>>),
                        ![FreshTask] = NewTask("local", PoolThread(w), w, U32(0), kind)]
                 /\ queue_local_task(tid, FreshTask)
                 /\ wpc' = [wpc EXCEPT ![w] = "ret"]
                 /\ UNCHANGED <<next_worker, external_tasks, lost>>
            ELSE /\ task' = [task EXCEPT
                        ![cur[w]].execBy = Append(@, <<w, wid[w]>>),
                        ![FreshTask] = NewTask("local", PoolThread(w), w, next_worker, kind)]
                 /\ next_worker' = u32_inc(next_worker)
                 /\ external_tasks' = queue_task_q(get_next_worker, FreshTask)
                 /\ wpc' = [queue_task_pc(get_next_worker) EXCEPT ![w] = "ret"]
                 /\ lost' = queue_task_lost(get_next_worker, FreshTask)
                 /\ UNCHANGED local_tasks
    /\ UNCHANGED <<worker_count, worker_ids, ids_alive, wid, promise_set, cur, mainpc, epc, owed>>
    /\ UNCHANGED <<batch, outside_pool>>

\* the callable of a spawning task returns
run_return(w) ==
    /\ wpc[w] = "ret"
    /\ task' = complete(w)
    /\ wpc' = [wpc EXCEPT ![w] = "loop"]
    /\ cur' = [cur EXCEPT ![w] = NoValue]
    /\ UNCHANGED <<worker_count, next_worker, worker_ids, ids_alive, wid, external_tasks,
                   local_tasks, promise_set, mainpc, epc, lost, owed>>
    /\ UNCHANGED <<batch, outside_pool>>

\* ~thread_pool() is implicit: the members go in reverse order of declaration, so
\* worker_ids is destroyed first, and then workers, one thread_pool_worker after
\* the other.  The destroying thread's own calls have returned; the other outside
\* threads are not inside a call.
dtor_begin ==
    /\ mainpc.pc = "live"
    /\ \A e \in ExtThreads : epc[e].pc = "idle"
    /\ ids_alive' = FALSE
    /\ mainpc' = [pc |-> "poison", i |-> 0]
    /\ UNCHANGED <<worker_count, next_worker, worker_ids, wid, external_tasks, local_tasks,
                   promise_set, wpc, cur, epc, task, lost, owed>>
    /\ UNCHANGED <<batch, outside_pool>>

\* ~thread_pool_worker(): queue_task({})
dtor_poison ==
    /\ mainpc.pc = "poison"
    /\ queue_task(mainpc.i, NoValue)
    /\ owed' = [owed EXCEPT ![mainpc.i] =
                   (Range(local_tasks[mainpc.i]) \cup Range(external_tasks[mainpc.i])
                        \cup {cur[mainpc.i]}) \ {NoValue}]
    /\ mainpc' = [mainpc EXCEPT !.pc = "join"]
    /\ UNCHANGED <<worker_count, next_worker, worker_ids, ids_alive, wid, local_tasks,
                   promise_set, cur, epc, task>>
    /\ UNCHANGED <<batch, outside_pool>>

\* mutant: a join that returns while the thread is still in run()
thr_join_no_wait(w) == wpc[w] \in WorkerPcs
\* thr.join() on worker w's thread returns once run() has returned
thr_join(w) == wpc[w] = "exited"

\* ~thread_pool_worker(): thr.join(); then the worker's members are destroyed, and
\* a packaged_task that is destroyed without having been invoked breaks its promise
dtor_join ==
    /\ mainpc.pc = "join"
    /\ thr_join(mainpc.i)
    /\ wpc' = [wpc EXCEPT ![mainpc.i] = "destroyed"]
    /\ task' = [t \in Tasks |->
                  IF t \in Range(external_tasks[mainpc.i]) \cup Range(local_tasks[mainpc.i])
                  THEN [task[t] EXCEPT !.fut = "broken"] ELSE task[t]]
    /\ external_tasks' = [external_tasks EXCEPT ![mainpc.i] = <<>>]
    /\ local_tasks' = [local_tasks EXCEPT ![mainpc.i] = <<>>]
    /\ mainpc' = IF mainpc.i + 1 < worker_count
                 THEN [pc |-> "poison", i |-> mainpc.i + 1]
                 ELSE [pc |-> "done", i |-> 0]
    /\ UNCHANGED <<worker_count, next_worker, worker_ids, ids_alive, wid, promise_set,
                   cur, epc, lost, owed>>
    /\ UNCHANGED <<batch, outside_pool>>

\* the steps of worker w's thread (a wake-up without notify is not one it must take)
WorkerStep(w) ==
    \/ worker_start(w)
    \/ get_next_task(w)
    \/ run_leaf(w)
    \/ run_spawn(w)
    \/ run_return(w)

\* the steps of the constructor, of a submit_task call once it drew its ticket, and
\* of the destructor once it has begun
MainStep ==
    \/ ctor_create
    \/ ctor_collect
    \/ \E kind \in TaskKinds : submit_task_enqueue(MainThread, kind)
    \/ dtor_poison
    \/ dtor_join

\* SpecPool follows one program: the thread that constructs the pool submits to it
\* and destroys it, as main() of test/thread_test.cpp does, while the tasks it
\* submitted run and submit on the workers.  (Submitters outside the pool racing
\* each other are what SpecRR follows.)
PNext ==
    \/ ctor_create
    \/ ctor_collect
    \/ \E w \in WorkerIdx : worker_start(w)
    \/ \E w \in WorkerIdx : get_next_task(w)
    \/ \E w \in WorkerIdx : worker_spurious_wakeup(w)
    \/ \E w \in WorkerIdx : run_leaf(w)
    \/ \E w \in WorkerIdx : run_spawn(w)
    \/ \E w \in WorkerIdx : run_return(w)
    \/ \E tid \in WorkerIdx, kind \in TaskKinds : submit_task_for(MainThread, tid, kind)
    \/ submit_task_ticket(MainThread)
    \/ \E kind \in TaskKinds : submit_task_enqueue(MainThread, kind)
    \/ dtor_begin
    \/ dtor_poison
    \/ dtor_join

\* the pool once thread_pool(n) has returned, with no task in it, after c tickets
\* were drawn
PoolLive(n, c) ==
    /\ worker_count = n
    /\ next_worker = c
    /\ worker_ids = {<<PoolThread(w), w>> : w \in 0..(n - 1)}
    /\ ids_alive = TRUE
    /\ wid = [w \in WorkerIdx |-> IF w < n THEN w ELSE nullopt]
    /\ external_tasks = [w \in WorkerIdx |-> <<>>]
    /\ local_tasks = [w \in WorkerIdx |-> <<>>]
    /\ promise_set = [w \in WorkerIdx |-> w < n]
    /\ wpc = [w \in WorkerIdx |-> IF w < n THEN "loop" ELSE "none"]
    /\ cur = [w \in WorkerIdx |-> NoValue]
    /\ mainpc = [pc |-> "live", i |-> 0]
    /\ epc = [e \in ExtThreads |-> [pc |-> "idle", w |-> nullopt]]
    /\ task = [t \in Tasks |-> NoTask]
    /\ lost = {}
    /\ owed = [w \in WorkerIdx |-> {}]
    /\ batch = [th \in AllThreads |-> NoBatch]

\* values of next_worker the round-robin specification starts from: a fresh pool,
\* and a pool two tickets before the counter wraps
StartCounters == {U32(0), <<Half - 1, Half - 2>>}

\* round-robin submission from outside threads to idle pools of every size
InitRR == QInit /\ GInit /\ HInit /\ KInit /\ MInit /\ OInit /\ \E n \in 1..MaxWorkers, c \in StartCounters : PoolLive(n, c)

NextRR ==
    \/ \E e \in ExtThreads : submit_task_ticket(e)
    \/ \E e \in ExtThreads : submit_task_enqueue(e, "leaf")
    \/ \E w \in WorkerIdx : get_next_task(w)
    \/ \E w \in WorkerIdx : run_leaf(w)

(***************************************************************************)
(* thread_pool::submit_all  (thread_utils.hpp:244-265)                     *)
(*                                                                         *)
(* A call is followed through its loop, one submit_task call per step.     *)
(* The tasks of the initializer_list exist when the call begins.           *)
(***************************************************************************)
\* the m lowest task numbers not in use, in order: the initializer_list
RECURSIVE LowestFree(_, _)
LowestFree(m, from) ==
    IF m = 0 \/ from > MaxTasks THEN <<>>
    ELSE IF from \in Submitted THEN LowestFree(m, from + 1)
    ELSE <<from>> \o LowestFree(m - 1, from + 1)
FreeTasks == Tasks \ Submitted

\* submit_all(tasks) entered on thread th with current_tid() = tid: res is empty,
\* and inside a pool current = thread = *id
submit_all_enter(th, m, tid) ==
    /\ m \in 1..Cardinality(FreeTasks)
    /\ batch' = [batch EXCEPT ![th] =
                    [pc |-> "loop", inside |-> tid # nullopt, current |-> tid,
                     thread |-> tid, tasks |-> LowestFree(m, 1), res |-> <<>>]]
\* the tasks once the m tasks of the list of thread th's call exist
submit_all_list(th, m) ==
    [t \in Tasks |->
        IF t \in Range(LowestFree(m, 1))
        THEN NewTask("listed", th, nullopt, U32(0), "leaf") ELSE task[t]]

\* the task the loop of submit_all is at
batch_task(th) == batch[th].tasks[Len(batch[th].res) + 1]
\* the allow_local argument of its submit_task call: thread == current inside a
\* pool, false outside
allow_local(th) == batch[th].inside /\ batch[th].thread = batch[th].current
\* thread = (thread + 1) % size()
advance(th) ==
    IF batch[th].inside THEN (batch[th].thread + 1) % worker_count ELSE batch[th].thread

\* one turn of the loop on thread th: res.emplace_back(submit_task(t, allow_local)),
\* with submit_task's own current_tid() returning tid, and the loop's increment.
\* wpcs is where the workers are but for the wake-up that queue_task may cause.
submit_all_turn(th, tid, wpcs) ==
    /\ batch[th].pc = "loop"
    /\ Len(batch[th].res) < Len(batch[th].tasks)
    /\ IF allow_local(th) /\ tid # nullopt
       THEN /\ task' = [task EXCEPT ![batch_task(th)] =
                            NewTask("local", th, tid, U32(0), "leaf")]
            /\ queue_local_task(tid, batch_task(th))
            /\ wpc' = wpcs
            /\ UNCHANGED <<next_worker, external_tasks, lost>>
       ELSE /\ task' = [task EXCEPT ![batch_task(th)] =
                            NewTask("rr", th, get_next_worker, next_worker, "leaf")]
            /\ next_worker' = u32_inc(next_worker)
            /\ external_tasks' = queue_task_q(get_next_worker, batch_task(th))
            /\ wpc' = [w \in WorkerIdx |->
                          IF w = get_next_worker /\ wpcs[w] = "wait" THEN "woken" ELSE wpcs[w]]
            /\ lost' = queue_task_lost(get_next_worker, batch_task(th))
            /\ UNCHANGED local_tasks
    /\ batch' = [batch EXCEPT ![th].res = Append(@, batch_task(th)),
                              ![th].thread = advance(th)]

\* submit_all called by a thread outside the pool
submit_all_begin(e) ==
    /\ mainpc.pc = "live"
    /\ epc[e].pc = "idle"
    /\ \E m \in 1..MaxTasks, tid \in current_tid(e) :
          /\ submit_all_enter(e, m, tid)
          /\ task' = submit_all_list(e, m)
    /\ epc' = [epc EXCEPT ![e].pc = "batch"]
    /\ UNCHANGED <<worker_count, next_worker, worker_ids, ids_alive, wid, external_tasks,
                   local_tasks, promise_set, wpc, cur, mainpc, lost, owed>>
    /\ UNCHANGED outside_pool

submit_all_task(e) ==
    /\ epc[e].pc = "batch"
    /\ \E tid \in current_tid(e) : submit_all_turn(e, tid, wpc)
    /\ UNCHANGED <<worker_count, worker_ids, ids_alive, wid, promise_set, cur, mainpc,
                   epc, owed>>
    /\ UNCHANGED outside_pool

\* return res
submit_all_return(e) ==
    /\ epc[e].pc = "batch"
    /\ Len(batch[e].res) = Len(batch[e].tasks)
    /\ batch' = [batch EXCEPT ![e].pc = "done"]
    /\ epc' = [epc EXCEPT ![e].pc = "idle"]
    /\ UNCHANGED <<worker_count, next_worker, worker_ids, ids_alive, wid, external_tasks,
                   local_tasks, promise_set, wpc, cur, mainpc, task, lost, owed>>
    /\ UNCHANGED outside_pool

\* t(id) for a task whose callable calls p.submit_all({...}): the call, made on the
\* worker's thread.  With every task number in use the callable submits nothing.
run_batch_begin(w) ==
    /\ wpc[w] = "run"
    /\ task[cur[w]].kind = "batch"
    /\ IF FreeTasks = {}
       THEN /\ wpc' = [wpc EXCEPT ![w] = "ret"]
            /\ task' = [task EXCEPT ![cur[w]].execBy = Append(@, <<w, wid[w]>>)]
            /\ UNCHANGED batch
       ELSE /\ wpc' = [wpc EXCEPT ![w] = "batch"]
            /\ \E m \in 1..MaxTasks, tid \in current_tid(PoolThread(w)) :
                  /\ submit_all_enter(PoolThread(w), m, tid)
                  /\ task' = [submit_all_list(PoolThread(w), m) EXCEPT
                                  ![cur[w]].execBy = Append(@, <<w, wid[w]>>)]
    /\ UNCHANGED <<worker_count, next_worker, worker_ids, ids_alive, wid, external_tasks,
                   local_tasks, promise_set, cur, mainpc, epc, lost, owed>>
    /\ UNCHANGED outside_pool

run_batch_task(w) ==
    /\ wpc[w] = "batch"
    /\ \E tid \in current_tid(PoolThread(w)) : submit_all_turn(PoolThread(w), tid, wpc)
    /\ UNCHANGED <<worker_count, worker_ids, ids_alive, wid, promise_set, cur, mainpc,
                   epc, owed>>
    /\ UNCHANGED outside_pool

\* submit_all returns res to the callable, which goes on to return
run_batch_return(w) ==
    /\ wpc[w] = "batch"
    /\ Len(batch[PoolThread(w)].res) = Len(batch[PoolThread(w)].tasks)
    /\ batch' = [batch EXCEPT ![PoolThread(w)].pc = "done"]
    /\ wpc' = [wpc EXCEPT ![w] = "ret"]
    /\ UNCHANGED <<worker_count, next_worker, worker_ids, ids_alive, wid, external_tasks,
                   local_tasks, promise_set, cur, mainpc, epc, task, lost, owed>>
    /\ UNCHANGED outside_pool

\* submit_all called from outside idle pools of every size and from tasks that the
\* pool's owner placed on a worker of its choice
InitAll == InitRR

NextAll ==
    \/ \E tid \in WorkerIdx : submit_task_for(MainThread, tid, "batch")
    \/ \E e \in ExtThreads : submit_all_begin(e)
    \/ \E e \in ExtThreads : submit_all_task(e)
    \/ \E e \in ExtThreads : submit_all_return(e)
    \/ \E w \in WorkerIdx : get_next_task(w)
    \/ \E w \in WorkerIdx : run_leaf(w)
    \/ \E w \in WorkerIdx : run_batch_begin(w)
    \/ \E w \in WorkerIdx : run_batch_task(w)
    \/ \E w \in WorkerIdx : run_batch_return(w)
    \/ \E w \in WorkerIdx : run_return(w)

(***************************************************************************)
(* thread_pool_worker::run and the tasks it runs  (thread_utils.hpp:       *)
(* 117-136, 219-238)                                                       *)
(*                                                                         *)
(* run() calls t(id) and looks for the next task only when the call has    *)
(* returned.  Besides the callables that return at once and those that     *)
(* call submit_all, the workers run here a callable that submits one task  *)
(* with submit_task(child) and returns the value of child's future:        *)
(*     [&](std::uint32_t) { return p.submit_task<int>(child).get(); }      *)
(***************************************************************************)
\* the task that the callable of task t submitted
Child(t) == CHOOSE c \in Tasks : task[c].how # "none" /\ task[c].parent = t

\* t(id) for the callable above, up to the call of get(): submit_task(child) with
\* allow_local = true on the worker's thread.  current_tid() finds the worker and
\* the child goes on its local queue; on a miss (see current_tid) it goes
\* round-robin on an external queue.  With every task number in use the callable
\* submits nothing and returns.
run_join(w) ==
    /\ wpc[w] = "run"
    /\ task[cur[w]].kind = "join"
    /\ IF Submitted = Tasks
       THEN /\ task' = [task EXCEPT ![cur[w]].execBy = Append(@, <<w, wid[w]>>)]
            /\ wpc' = [wpc EXCEPT ![w] = "ret"]
            /\ UNCHANGED <<next_worker, external_tasks, local_tasks, lost>>
       ELSE \E tid \in current_tid(PoolThread(w)) :
            IF tid # nullopt
            THEN /\ task' = [task EXCEPT
                        ![cur[w]].execBy = Append(@, <<w, wid[w]>>),
                        ![FreshTask] = NewTask("local", PoolThread(w), tid, U32(0), "leaf")]
                 /\ queue_local_task(tid, FreshTask)
                 /\ wpc' = [wpc EXCEPT ![w] = "blocked"]
                 /\ UNCHANGED <<next_worker, external_tasks, lost>>
            ELSE /\ task' = [task EXCEPT
                        ![cur[w]].execBy = Append(@, <<w, wid[w]>>),
                        ![FreshTask] = NewTask("rr", PoolThread(w), get_next_worker,
                                               next_worker, "leaf")]
                 /\ next_worker' = u32_inc(next_worker)
                 /\ external_tasks' = queue_task_q(get_next_worker, FreshTask)
                 /\ wpc' = [queue_task_pc(get_next_worker) EXCEPT ![w] = "blocked"]
                 /\ lost' = queue_task_lost(get_next_worker, FreshTask)
                 /\ UNCHANGED local_tasks
    /\ UNCHANGED <<worker_count, worker_ids, ids_alive, wid, promise_set, cur, mainpc, epc, owed>>
    /\ UNCHANGED <<batch, outside_pool>>

\* std::future::get() returns once the shared state is ready: with the child's
\* value, or by throwing the std::future_error of a broken promise; the callable
\* ends either way.  A child written into a destroyed worker has no defined
\* state, and get() may return or not.
future_get(w) ==
    /\ wpc[w] = "blocked"
    /\ \/ task[Child(cur[w])].fut \in {"ready", "broken"}
       \/ Child(cur[w]) \in lost
    /\ wpc' = [wpc EXCEPT ![w] = "ret"]
    /\ UNCHANGED <<worker_count, next_worker, worker_ids, ids_alive, wid, external_tasks,
                   local_tasks, promise_set, cur, mainpc, epc, task, lost, owed>>
    /\ UNCHANGED <<batch, outside_pool>>

\* the callables of the tasks the owner of the pool submits
LocalKinds == {"leaf", "batch", "join"}

\* a pool from the return of its constructor to the end of its destruction; its
\* owner places tasks on the workers of its choice and destroys the pool
InitLocal ==
    /\ QInit /\ GInit /\ HInit /\ KInit /\ MInit /\ OInit
    /\ \E n \in 1..PoolSize : PoolLive(n, U32(0))

NextLocal ==
    \/ \E tid \in WorkerIdx, kind \in LocalKinds : submit_task_for(MainThread, tid, kind)
    \/ \E w \in WorkerIdx : get_next_task(w)
    \/ \E w \in WorkerIdx : worker_spurious_wakeup(w)
    \/ \E w \in WorkerIdx : run_leaf(w)
    \/ \E w \in WorkerIdx : run_batch_begin(w)
    \/ \E w \in WorkerIdx : run_batch_task(w)
    \/ \E w \in WorkerIdx : run_batch_return(w)
    \/ \E w \in WorkerIdx : run_join(w)
    \/ \E w \in WorkerIdx : future_get(w)
    \/ \E w \in WorkerIdx : run_return(w)
    \/ dtor_begin
    \/ dtor_poison
    \/ dtor_join

(***************************************************************************)
(* Raster<P, S>  (gfx.cc:330-664)                                          *)
(*                                                                         *)
(* The host of the model: a point P carries coordinates in units of 1/Sub  *)
(* pixel and the pipeline stages it went through; screen() rounds the      *)
(* coordinates to pixels as the game's screen() does (std::round),         *)
(* slope(a, b).at(r) mixes the coordinates linearly as map::PointSlope     *)
(* does, to the precision of the coordinates; transform and project leave  *)
(* the coordinates and record themselves in the point.                     *)
(***************************************************************************)
Pt(x, y, st) == [x |-> x, y |-> y, st |-> st]
Callbacks == {"transform", "tesselation", "project", "screen", "scissor", "slope", "painter"}

\* std::round(n / d) for d > 0: the nearest integer, halves away from zero
Round(n, d) == IF n >= 0 THEN (2 * n + d) \div (2 * d) ELSE -((2 * (-n) + d) \div (2 * d))

\* screen(p): the pixel of point p
screen(p) == <<Round(p.x, Sub), Round(p.y, Sub)>>
\* glm::mix(u, v, num / den) for den > 0, which is u + (v - u) * num / den; the
\* coordinates of the model's points end at WorldLimit on either side
mix(u, v, num, den) ==
    LET reach == (WorldLimit * den) \div (IF v >= u THEN v - u ELSE u - v)
    IN IF v = u THEN u
       ELSE IF num > reach THEN (IF v > u THEN WorldLimit ELSE -WorldLimit)
       ELSE IF num < -reach THEN (IF v > u THEN -WorldLimit ELSE WorldLimit)
       ELSE Round(u * den + (v - u) * num, den)
\* slope(a, b).at(num / den)
slope_at(a, b, num, den) ==
    Pt(mix(a.x, b.x, num, den), mix(a.y, b.y, num, den),
       IF Len(a.st) <= Len(b.st) THEN a.st ELSE b.st)
\* transform(p) and project(p)
transform(p) == [p EXCEPT !.st = Append(@, "transform")]
project(p) == [p EXCEPT !.st = Append(@, "project")]

Max(a, b) == IF a >= b THEN a ELSE b
Max3(a, b, c) == Max(a, Max(b, c))
Min3(a, b, c) == Min(a, Min(b, c))

\* the exact product of w and h (0 <= w, h < 2^24) as <<high, low>>, low being its
\* 16 low bits: long multiplication on base-256 digits
Digit(n, i) == (n \div (256 ^ i)) % 256
Coeff(w, h, k) ==
    LET Term(i) == IF k - i \in 0..2 THEN Digit(w, i) * Digit(h, k - i) ELSE 0
    IN Term(0) + Term(1) + Term(2)
RECURSIVE Column(_, _, _)
\* what columns 0..k of the product carry into column k + 1
Column(w, h, k) ==
    IF k < 0 THEN 0 ELSE (Coeff(w, h, k) + Column(w, h, k - 1)) \div 256
ProductDigit(w, h, k) == (Coeff(w, h, k) + Column(w, h, k - 1)) % 256
mul_exact(w, h) ==
    << ProductDigit(w, h, 2) + 256 * ProductDigit(w, h, 3) + 65536 * ProductDigit(w, h, 4)
          + 16777216 * ProductDigit(w, h, 5),
       ProductDigit(w, h, 0) + 256 * ProductDigit(w, h, 1) >>
\* width * height in std::uint32_t: the product modulo 2^32
u32_mul(w, h) == <<mul_exact(w, h)[1] % Half, mul_exact(w, h)[2]>>
\* comparisons and the sum of <<high, low>> values (a uint64_t sum does not wrap)
u_gt(a, b) == a[1] > b[1] \/ (a[1] = b[1] /\ a[2] > b[2])
u_le(a, b) == ~u_gt(a, b)
u_max(a, b) == IF u_gt(b, a) THEN b ELSE a
u64_add(a, b) == <<a[1] + b[1] + ((a[2] + b[2]) \div Half), (a[2] + b[2]) % Half>>

\* the width and the height of the bounding box of the screen points of t
width(t) == Max3(screen(t[1])[1], screen(t[2])[1], screen(t[3])[1])
              - Min3(screen(t[1])[1], screen(t[2])[1], screen(t[3])[1])
height(t) == Max3(screen(t[1])[2], screen(t[2])[2], screen(t[3])[2])
               - Min3(screen(t[1])[2], screen(t[2])[2], screen(t[3])[2])
\* darea(t): uint32_t width, height; return width * height
darea(t) == u32_mul(width(t), height(t))

\* the lambda `make` of bissect: side p0-p1 split at its middle, p2 in both halves
make(p0, p1, p2) ==
    LET middle == slope_at(p0, p1, 1, 2)
    IN [t0 |-> <<p0, middle, p2>>, t1 |-> <<middle, p1, p2>>,
        max |-> u_max(darea(<<p0, middle, p2>>), darea(<<middle, p1, p2>>))]
\* bissect(source, t0, t1): the candidate kept after the two `if(area > max)` swaps
bissect(source) ==
    LET a == make(source[1], source[2], source[3])
        b == make(source[2], source[3], source[1])
        ab == IF u_gt(b.max, a.max) THEN b ELSE a
        c == make(source[3], source[1], source[2])
    IN IF u_gt(c.max, ab.max) THEN c ELSE ab

\* #define TESSEL_AREA_THRESHOLD (1024 * 64)
TESSEL_AREA_THRESHOLD == 65536

\* the triangles dispatch is called on: every triple of points at the pixels of
\* GridX x GridY, and one triangle whose bounding box is 3 * 2^15 pixels wide and
\* 2^16 pixels high
GridX == {0, 300, 70000}
GridY == {0, 1, 300}
GridPoints == {Pt(x * Sub, y * Sub, <<>>) : x \in GridX, y \in GridY}
WideTriangle == <<Pt(0, 0, <<>>), Pt(0, (Half \div 2) * Sub, <<>>),
                  Pt(3 * (Half \div 2) * Sub, Half * Sub, <<>>)>>
\* a triangle two pixels wide whose first two points are as near as two points
\* get: the middle of its first side is its first point again
NearTriangle == <<Pt(2, 0, <<>>), Pt(1, 0, <<>>), Pt(2, 70000 * Sub, <<>>)>>
InputTriangles == {<<a, b, c>> : a, b, c \in GridPoints} \cup {WideTriangle, NearTriangle}

\* the frame of a dispatch call on triangle t
Frame(t) == [t |-> t, pc |-> "enter", t1 |-> <<>>]
Top == stack[Len(stack)]
Pop == SubSeq(stack, 1, Len(stack) - 1)
\* where a frame goes on after its children: to the statements that follow the if
FallThrough(f) == Append(Pop, [f EXCEPT !.pc = "submit"])

\* the host calls raster.dispatch(p0, p1, p2, futures) with an empty futures vector
dispatch(t) ==
    /\ tri = <<>>
    /\ tri' = t
    /\ stack' = <<Frame(t)>>
    /\ UNCHANGED <<installed, thrown, futures, bisected, screened, ras, painted>>
    /\ UNCHANGED outside_raster

\* dispatch, lines 630-652: the area, the bisection and the first recursive call
dispatch_enter ==
    /\ stack # <<>>
    /\ Len(stack) <= MaxDepth
    /\ Top.pc = "enter"
    /\ screened' = screened \cup {Top.t[i].st : i \in 1..3}
    /\ IF /\ u_gt(darea(Top.t), U32(TESSEL_AREA_THRESHOLD))
          /\ u_le(u64_add(darea(bissect(Top.t).t0), darea(bissect(Top.t).t1)), darea(Top.t))
       THEN /\ stack' = Append(Pop, [Top EXCEPT !.pc = "second", !.t1 = bissect(Top.t).t1])
                            \o <<Frame(bissect(Top.t).t0)>>
            /\ bisected' = bisected \cup {Top.t}
       ELSE /\ stack' = Append(Pop, [Top EXCEPT !.pc = "submit"])
            /\ UNCHANGED bisected
    /\ UNCHANGED <<tri, installed, thrown, futures, ras, painted>>
    /\ UNCHANGED outside_raster

\* dispatch, line 653: the second recursive call, after which the if is left
dispatch_second ==
    /\ stack # <<>>
    /\ Top.pc = "second"
    /\ stack' = FallThrough(Top) \o <<Frame(Top.t1)>>
    /\ UNCHANGED <<tri, installed, thrown, futures, bisected, screened, ras, painted>>
    /\ UNCHANGED outside_raster

\* dispatch, lines 658-662: futures.push_back(pool.submit_task(task)), and return
dispatch_submit ==
    /\ stack # <<>>
    /\ Top.pc = "submit"
    /\ futures' = Append(futures, Top.t)
    /\ stack' = Pop
    /\ UNCHANGED <<tri, installed, thrown, bisected, screened, ras, painted>>
    /\ UNCHANGED outside_raster

InitDispatch == QInit /\ PInit /\ RasterIdle(Callbacks) /\ HInit /\ KInit /\ MInit /\ OInit
NextDispatch ==
    \/ \E t \in InputTriangles : dispatch(t)
    \/ dispatch_enter
    \/ dispatch_second
    \/ dispatch_submit

(***************************************************************************)
(* The pipeline callbacks of a Raster  (gfx.cc:342-392, 569-622)           *)
(***************************************************************************)
\* the callbacks to which Raster() assigns a lambda that throws
\* std::runtime_error("raster call missing ...")
CtorDefaults == {"transform", "screen", "slope", "scissor", "tesselation", "painter"}
\* what invoking callback c throws when the host did not assign it: the error of
\* the constructor's lambda, or that of an empty std::function
missing(c) == IF c \in CtorDefaults THEN "raster call missing" ELSE "bad_function_call"

\* the host assigns callback c
install(c) ==
    /\ installed' = installed \cup {c}
    /\ UNCHANGED <<tri, thrown, stack, futures, bisected, screened, ras, painted>>
    /\ UNCHANGED outside_raster

\* callback c is invoked: the host's function runs, or the call throws
invoke(c) ==
    /\ thrown' = [call |-> c, set |-> c \in installed,
                  what |-> IF c \in installed THEN "none" ELSE missing(c)]
    /\ UNCHANGED <<tri, installed, stack, futures, bisected, screened, ras, painted>>
    /\ UNCHANGED outside_raster

InitCallbacks == QInit /\ PInit /\ GInit /\ HInit /\ KInit /\ MInit /\ OInit
NextCallbacks ==
    \/ \E c \in Callbacks : install(c)
    \/ \E c \in Callbacks : invoke(c)

(***************************************************************************)
(* clip_rasterize and rasterize  (gfx.cc:407-509)                          *)
(*                                                                         *)
(* The host's tesselation emits the triangle it is given, once; its        *)
(* scissor returns the same rectangle at every call.  ras holds the locals *)
(* of rasterize: the sorted points a, b, c and their rows y0, y1, y2, the  *)
(* scissor, shortside, the end points of slopes[shortside] (short) and of  *)
(* slopes[!shortside] (long), ye, yt and the loop variable y.              *)
(***************************************************************************)
\* std::int32_t
INT32_MAX == 2147483647
INT32_MIN == -INT32_MAX - 1

\* the host's tesselation passes its points on to the emitter
tesselation(p) == [p EXCEPT !.st = Append(@, "tesselation")]

\* std::tie(y0, x0) > std::tie(y1, x1)
lex_gt(y0, x0, y1, x1) == y0 > y1 \/ (y0 = y1 /\ x0 > x1)
\* std::tie(y, x) of p > std::tie(y, x) of q
tie_gt(p0, p1) == lex_gt(screen(p0)[2], screen(p0)[1], screen(p1)[2], screen(p1)[1])
\* lines 444-447: the points and their screen columns and rows, each in locals
\* of its own
screened_points(t) ==
    [p |-> t, x |-> [i \in 1..3 |-> screen(t[i])[1]], y |-> [i \in 1..3 |-> screen(t[i])[2]]]
\* std::swap on the i-th and j-th of three locals
swap(v, i, j) == [k \in 1..3 |-> IF k = i THEN v[j] ELSE IF k = j THEN v[i] ELSE v[k]]
\* one of lines 450-452: the comparison, and the three swaps it guards
compare_swap(v, i, j) ==
    IF lex_gt(v.y[i], v.x[i], v.y[j], v.x[j])
    THEN [p |-> swap(v.p, i, j), x |-> swap(v.x, i, j), y |-> swap(v.y, i, j)]
    ELSE v
\* lines 450-451 alone
sort_without_last_step(t) == compare_swap(compare_swap(screened_points(t), 1, 2), 2, 3)
\* lines 444-452: a, b, c and x0, y0, x1, y1, x2, y2 after the three steps
sorted(t) == compare_swap(compare_swap(compare_swap(screened_points(t), 1, 2), 2, 3), 1, 2)
\* lines 450-452: the three conditional swaps, on the points
sort_points(t) == sorted(t).p
\* line 455, on the sorted points
shortside(s) ==
    (screen(s[2])[2] - screen(s[1])[2]) * (screen(s[3])[1] - screen(s[1])[1])
        < (screen(s[2])[1] - screen(s[1])[1]) * (screen(s[3])[2] - screen(s[1])[2])

\* a scissor, as the std::uint32_t values the callback returns
Scissor(l, r, t, b) == [left |-> l, right |-> r, top |-> t, bottom |-> b]

\* lines 434-470: the locals of rasterize(t) when its row loop is entered
rasterize_enter(t, sc) ==
    LET p == [i \in 1..3 |-> project(t[i])]
        v == sorted(p)
        s == sort_points(p)
    IN [pc |-> "rows", a |-> s[1], b |-> s[2], c |-> s[3],
        x0 |-> v.x[1], x1 |-> v.x[2], x2 |-> v.x[3],
        y0 |-> v.y[1], y1 |-> v.y[2], y2 |-> v.y[3],
        shortside |-> shortside(s), short |-> <<s[1], s[2]>>, long |-> <<s[1], s[3]>>,
        sc |-> sc, ye |-> v.y[2], yt |-> v.y[1],
        y |-> Max(v.y[1], sc.top)]

\* lines 472-482: the locals after the `if(y >= ye)` of a row; pc is "done" when
\* the loop is left by the break
bend(r) ==
    IF r.y < r.ye THEN r
    ELSE IF r.ye >= r.y2 THEN [r EXCEPT !.pc = "done"]
    ELSE [r EXCEPT !.ye = r.y2, !.yt = r.y1, !.short = <<r.b, r.c>>]

\* lines 484-491: p0 and p1 of the row, and x0 <= x1 after the swap
edge_points(r) ==
    <<slope_at(r.short[1], r.short[2], r.y - r.yt, r.ye - r.yt),
      slope_at(r.long[1], r.long[2], r.y - r.y0, r.y2 - r.y0)>>
span(r) ==
    LET x0 == screen(edge_points(r)[1])[1]
        x1 == screen(edge_points(r)[2])[1]
    IN IF x0 > x1 THEN <<x1, x0>> ELSE <<x0, x1>>

\* line 494: the values x takes in the row, in order
first_x(x0, left) == Max(x0, left)
last_x(x1, right) == Min(x1 - 1, right)
\* x at the i-th iteration of the loop: ++x
nth_x_not_incremented(from, i) == from
nth_x(from, i) == from + i - 1
row_xs(r) ==
    LET from == first_x(span(r)[1], r.sc.left)
        to == last_x(span(r)[2], r.sc.right)
    IN [i \in 1..(IF to >= from THEN to - from + 1 ELSE 0) |-> nth_x(from, i)]

\* line 504: the validation before the painter call
invalid(x, y, sc) == x < 0 \/ y < 0 \/ x > sc.right \/ y > sc.bottom
\* the painter calls of a row: those before the first invalid coordinate
Valid(xs, y, sc) == {n \in 0..Len(xs) : \A i \in 1..n : ~invalid(xs[i], y, sc)}
valid_prefix(xs, y, sc) ==
    CHOOSE n \in Valid(xs, y, sc) : \A m \in Valid(xs, y, sc) : m <= n

\* ++y of line 470.  Past INT32_MAX the increment overflows a signed integer:
\* the builds either wrap y to INT32_MIN or go on as with a wider y, which ends
\* the loop
increment(y) ==
    IF y < INT32_MAX THEN {[y |-> y + 1, pc |-> "rows"]}
    ELSE {[y |-> INT32_MIN, pc |-> "rows"], [y |-> y, pc |-> "done"]}

FragmentOutOfBounds == "invalid pixel shader invocation coordinate"

\* the triangles and the scissors of the model: points at the pixels of
\* RasterX x RasterY under the scissors of planes with MaxPlane + 1 columns and
\* rows, and one triangle under a scissor that ends at the last row of all
RasterX == {-1, 0, 1, 3}
RasterY == {-1, 0, 1, 3}
MaxPlane == 3
RasterPoints == {Pt(x * Sub, y * Sub, <<>>) : x \in RasterX, y \in RasterY}
Scissors == {Scissor(0, MaxPlane, 0, MaxPlane), Scissor(1, MaxPlane - 1, 1, MaxPlane - 1),
             Scissor(0, MaxPlane, MaxPlane, MaxPlane)}
LastRowTriangle == <<Pt(0, 0, <<>>), Pt(Sub, 0, <<>>), Pt(0, 3 * Sub, <<>>)>>
LastRowScissor == Scissor(0, MaxPlane, INT32_MAX, INT32_MAX)
RasterInputs ==
    {<<<<a, b, c>>, sc>> : a, b, c \in RasterPoints, sc \in Scissors}
        \cup {<<LastRowTriangle, LastRowScissor>>}

\* a worker runs the task of dispatch: clip_rasterize(t), up to the row loop of
\* the rasterize call that the tesselation's emitter makes
clip_rasterize ==
    /\ tri = <<>>
    /\ \E in \in RasterInputs :
          LET t == in[1]
          IN /\ tri' = t
             /\ ras' = rasterize_enter([i \in 1..3 |-> tesselation(transform(t[i]))], in[2])
             /\ screened' = screened
                    \cup {project(tesselation(transform(t[i]))).st : i \in 1..3}
    /\ UNCHANGED <<installed, thrown, stack, futures, bisected, painted>>
    /\ UNCHANGED outside_raster

\* one iteration of the row loop, lines 470-508
raster_row ==
    /\ ras.pc = "rows"
    /\ ras.y <= ras.sc.bottom
    /\ LET r == bend(ras)
           xs == row_xs(r)
           n == valid_prefix(xs, r.y, r.sc)
       IN IF r.pc = "done"
          THEN /\ ras' = r
               /\ UNCHANGED <<thrown, screened, painted>>
          ELSE /\ screened' = screened \cup {edge_points(r)[1].st, edge_points(r)[2].st}
               /\ painted' = painted \o [i \in 1..n |-> <<xs[i], r.y>>]
               /\ IF n < Len(xs)
                  THEN /\ thrown' = [call |-> "rasterize", set |-> TRUE,
                                     what |-> FragmentOutOfBounds]
                       /\ ras' = [r EXCEPT !.pc = "thrown"]
                  ELSE /\ \E next \in increment(r.y) :
                              ras' = [r EXCEPT !.y = next.y, !.pc = next.pc]
                       /\ UNCHANGED thrown
    /\ UNCHANGED <<tri, installed, stack, futures, bisected>>
    /\ UNCHANGED outside_raster

\* the row loop ends at its condition, and rasterize returns
raster_return ==
    /\ ras.pc = "rows"
    /\ ras.y > ras.sc.bottom
    /\ ras' = [ras EXCEPT !.pc = "done"]
    /\ UNCHANGED <<tri, installed, thrown, stack, futures, bisected, screened, painted>>
    /\ UNCHANGED outside_raster

InitRaster == QInit /\ PInit /\ RasterIdle(Callbacks) /\ HInit /\ KInit /\ MInit /\ OInit
NextRaster ==
    \/ clip_rasterize
    \/ raster_row
    \/ raster_return

(***************************************************************************)
(* Plane<T>  (gfx.cc:79-236)                                               *)
(*                                                                         *)
(* _width, _height, x and y are std::uint32_t, and so are the products and *)
(* sums of them: the number of cells the constructor allocates and the     *)
(* index at() computes are taken modulo 2^32.                              *)
(***************************************************************************)
\* a + b in std::uint32_t
u32_add(a, b) == <<(a[1] + b[1] + ((a[2] + b[2]) \div Half)) % Half, (a[2] + b[2]) % Half>>
\* new T[width * height]: the number of cells of _data
allocated(pl) == u32_mul(pl.width, pl.height)
\* _check_bounds(x, y) throws std::range_error
check_bounds(pl, x, y) == x >= pl.width \/ y >= pl.height
\* y * this->_width + x
plane_index(pl, x, y) == u32_add(u32_mul(y, pl.width), U32(x))

\* the extents of the planes and the coordinates of the model, and the values
\* written to their cells
Extents == {1, 2, Half, Half + 1}
Coordinates == {0, 1, 2, Half}
MaxCellValue == 1
CellValues == 1..MaxCellValue
\* most cells that are written through at()
MaxWrites == 1

\* at(x, y) const, the caller reading the cell
at_read(x, y) ==
    /\ cell' = [x |-> x, y |-> y, op |-> "read", failed |-> check_bounds(plane, x, y),
                index |-> plane_index(plane, x, y), changed |-> FALSE]
    /\ UNCHANGED <<plane, stored>>
    /\ UNCHANGED outside_plane

\* at(x, y) = v
at_write(x, y, v) ==
    /\ Cardinality(stored) < MaxWrites
    /\ LET failed == check_bounds(plane, x, y)
           index == plane_index(plane, x, y)
           after == IF failed THEN stored
                    ELSE {c \in stored : c[1] # index} \cup {<<index, v>>}
       IN /\ stored' = after
          /\ cell' = [x |-> x, y |-> y, op |-> "write", failed |-> failed,
                      index |-> index, changed |-> after # stored]
    /\ UNCHANGED plane
    /\ UNCHANGED outside_plane

InitPlane == QInit /\ PInit /\ GInit /\ KInit /\ MInit /\ OInit /\ \E w, h \in Extents : PlaneNew(w, h)
NextPlane ==
    \/ \E x, y \in Coordinates : at_read(x, y)
    \/ \E x, y \in Coordinates, v \in CellValues : at_write(x, y, v)

(***************************************************************************)
(* The game's painter  (game.cc:400-426)                                   *)
(*                                                                         *)
(* Every task is the rasterize call of one triangle, run by a worker of    *)
(* the Raster's pool: it calls the painter once per fragment, in row-major *)
(* order, and no pixel twice.  Tasks of different triangles run on         *)
(* different workers at the same time.  A painter call is split at its     *)
(* accesses to the three planes.                                           *)
(***************************************************************************)
\* a fragment: the pixel, p.position.z and p.color of a painter call
Frag(px, z, c) == [px |-> px, z |-> z, c |-> c]
\* p.color of the fragments of task t
Color(t) == 50 * t + 50
\* color.x / std::max(p.position.z / 10.0f, 1.0f), stored into a std::uint8_t
shade(c, z) == (c * 10) \div Max(z, 10)

\* lines 408-409: the painter returns before it touches any plane
off_screen(px) == px[1] < 0 \/ px[1] >= ScreenWidth \/ px[2] < 0 \/ px[2] >= ScreenHeight
\* std::mutex::lock() returns once no other thread holds the mutex
mutex_lock_without_waiting(holder) == TRUE
mutex_lock(holder) == holder = NoHolder
\* mutant: an unlock() that leaves the mutex with its holder
mutex_unlock_omitted(px) == lock
\* std::mutex::unlock() on the mutex of pixel px
mutex_unlock(px) == [lock EXCEPT ![px] = NoHolder]
\* line 412: if(depth.at(x, y) < p.position.z)
rejects_nearer(stored_z, z) == stored_z > z
rejects(stored_z, z) == stored_z < z

\* the pixels fragments are painted at: those of the screen, and one in the
\* column right of it, which the game's scissor lets through
FragPixels == <<<<0, 0>>, <<ScreenWidth - 1, 0>>, <<ScreenWidth, 0>>>>
\* per pixel of FragPixels the z of the task's fragment there, 0 for none
FragChoices == {f \in [1..3 -> {0} \cup Zs] : f[3] \in {0, 1}}
Chosen(f) == SelectSeq(<<1, 2, 3>>, LAMBDA i : f[i] # 0)
FragList(f, t) == [n \in 1..Len(Chosen(f)) |->
                      Frag(FragPixels[Chosen(f)[n]], f[Chosen(f)[n]], Color(t))]

Current(t) == ptask[t].list[ptask[t].i]
Returned(t) == [ptask EXCEPT ![t].pc = "idle", ![t].i = @ + 1]
Finished(t) == ptask[t].pc = "idle" /\ ptask[t].i > Len(ptask[t].list)

\* rasterize calls the painter (line 506 of gfx.cc); lines 402-409 of the painter
painter_call(t) ==
    /\ ptask[t].pc = "idle"
    /\ ptask[t].i <= Len(ptask[t].list)
    /\ IF off_screen(Current(t).px)
       THEN /\ ptask' = Returned(t)
            /\ verdict' = [verdict EXCEPT ![t] =
                   [NoVerdict EXCEPT !.px = Current(t).px, !.outcome = "off screen"]]
       ELSE /\ ptask' = [ptask EXCEPT ![t].pc = "lock"]
            /\ UNCHANGED verdict
    /\ UNCHANGED <<depth, color, lock, access, pass, first>>
    /\ UNCHANGED outside_frame

\* line 411: lock.at(x, y).lock()
painter_lock(t) ==
    /\ ptask[t].pc = "lock"
    /\ mutex_lock(lock[Current(t).px])
    /\ lock' = [lock EXCEPT ![Current(t).px] = t]
    /\ ptask' = [ptask EXCEPT ![t].pc = "test"]
    /\ UNCHANGED <<depth, color, access, verdict, pass, first>>
    /\ UNCHANGED outside_frame

\* lines 412-416: the depth test and, when it rejects, unlock() and return
painter_test(t) ==
    /\ ptask[t].pc = "test"
    /\ LET px == Current(t).px
           seen == <<depth[px], color[px]>>
       IN /\ access' = [task |-> t, px |-> px, op |-> "read depth", held |-> lock[px] = t]
          /\ IF rejects(depth[px], Current(t).z)
             THEN /\ lock' = mutex_unlock(px)
                  /\ ptask' = Returned(t)
                  /\ verdict' = [verdict EXCEPT ![t] =
                         [px |-> px, z |-> Current(t).z, c |-> Current(t).c,
                          outcome |-> "reject", before |-> seen, after |-> seen]]
             ELSE /\ ptask' = [ptask EXCEPT ![t].pc = "depth"]
                  /\ verdict' = [verdict EXCEPT ![t] =
                         [px |-> px, z |-> Current(t).z, c |-> Current(t).c,
                          outcome |-> "writing", before |-> seen, after |-> seen]]
                  /\ UNCHANGED lock
    /\ UNCHANGED <<depth, color, pass, first>>
    /\ UNCHANGED outside_frame

\* line 417: depth.at(x, y) = p.position.z
painter_depth(t) ==
    /\ ptask[t].pc = "depth"
    /\ depth' = [depth EXCEPT ![Current(t).px] = Current(t).z]
    /\ access' = [task |-> t, px |-> Current(t).px, op |-> "write depth",
                  held |-> lock[Current(t).px] = t]
    /\ ptask' = [ptask EXCEPT ![t].pc = "color"]
    /\ UNCHANGED <<color, lock, verdict, pass, first>>
    /\ UNCHANGED outside_frame

\* lines 419-423: screen.at(x, y) is written
painter_color(t) ==
    /\ ptask[t].pc = "color"
    /\ color' = [color EXCEPT ![Current(t).px] = shade(Current(t).c, Current(t).z)]
    /\ access' = [task |-> t, px |-> Current(t).px, op |-> "write color",
                  held |-> lock[Current(t).px] = t]
    /\ ptask' = [ptask EXCEPT ![t].pc = "unlock"]
    /\ UNCHANGED <<depth, lock, verdict, pass, first>>
    /\ UNCHANGED outside_frame

\* line 425: lock.at(x, y).unlock(), and the painter returns
painter_unlock(t) ==
    /\ ptask[t].pc = "unlock"
    /\ lock' = mutex_unlock(Current(t).px)
    /\ verdict' = [verdict EXCEPT ![t].outcome = "write",
                                  ![t].after = <<depth[Current(t).px], color[Current(t).px]>>]
    /\ ptask' = Returned(t)
    /\ UNCHANGED <<depth, color, access, pass, first>>
    /\ UNCHANGED outside_frame

\* Mesh::draw returned, all its tasks being finished, and the host draws the
\* same mesh once more into the frame as it is
draw_again ==
    /\ pass = 1
    /\ \A t \in Painters : Finished(t)
    /\ pass' = 2
    /\ first' = color
    /\ ptask' = [t \in Painters |-> [ptask[t] EXCEPT !.i = 1]]
    /\ UNCHANGED <<depth, color, lock, access, verdict>>
    /\ UNCHANGED outside_frame

InitPaint ==
    /\ QInit /\ PInit /\ GInit /\ HInit /\ MInit /\ OInit
    /\ \E f \in [Painters -> FragChoices] :
          FrameCleared([t \in Painters |-> FragList(f[t], t)])
NextPaint ==
    \/ \E t \in Painters : painter_call(t)
    \/ \E t \in Painters : painter_lock(t)
    \/ \E t \in Painters : painter_test(t)
    \/ \E t \in Painters : painter_depth(t)
    \/ \E t \in Painters : painter_color(t)
    \/ \E t \in Painters : painter_unlock(t)
    \/ draw_again

\* the steps of the worker thread that runs task t
PainterStep(t) ==
    \/ painter_call(t)
    \/ painter_lock(t)
    \/ painter_test(t)
    \/ painter_depth(t)
    \/ painter_color(t)
    \/ painter_unlock(t)

(***************************************************************************)
(* Mesh<P>  (gfx.cc:682-807)                                               *)
(*                                                                         *)
(* The host calls dispatch or draw on one mesh.  A callback of the host    *)
(* raises when it is given one of the vertices of `raising`: screen does   *)
(* so in the darea of Raster::dispatch, on the host's thread, painter      *)
(* inside the task of a triangle that has the vertex.  A task invokes the  *)
(* painter once.  The pool hands every queued task to one of its workers.  *)
(***************************************************************************)
\* the vertex buffer of the meshes: three points a few pixels apart, and two
\* points that make with the first a triangle that Raster::dispatch bisects
MeshVertices == <<Pt(0, 0, <<>>), Pt(4 * Sub, 0, <<>>), Pt(0, 4 * Sub, <<>>),
                  Pt(0, Sub, <<>>), Pt(70000 * Sub, Sub, <<>>)>>
\* _vertices[k], _indices[i] and _indices.size()
vertex(k) == MeshVertices[k + 1]
index(i) == mesh.indices[i + 1]
size == Len(mesh.indices)
\* p0, p1, p2 of the loop body at i
assemble(i) == <<vertex(index(i)), vertex(index(i + 1)), vertex(index(i + 2))>>
\* the loop's increment: `i += 3` in dispatch_triangle_list, `++i` in
\* dispatch_triangle_strip
next_index_of_strip(primitive, i) == i + 1
next_index(primitive, i) == IF primitive = "TriangleList" THEN i + 3 ELSE i + 1

\* the host's callback c raises on a point of triangle t
raises(c, t) == \E k \in raising[c] : \E j \in 1..3 : t[j] = vertex(k)

RECURSIVE submitted(_)
\* Raster::dispatch on t when screen does not raise: the triangles of the tasks
\* it pushes on futures, in order
submitted(t) ==
    IF /\ u_gt(darea(t), U32(TESSEL_AREA_THRESHOLD))
       /\ u_le(u64_add(darea(bissect(t).t0), darea(bissect(t).t1)), darea(t))
    THEN submitted(bissect(t).t0) \o submitted(bissect(t).t1) \o <<t>>
    ELSE <<t>>

\* the task of triangle t, submitted for the k-th triangle of the mesh
Job(t, k) == [t |-> t, of |-> k, state |-> "queued", painter |-> "none", by |-> Waiting]
\* the future of task j is ready: it holds a value or an exception
ready(j) == j.state \in {"done", "failed"}
\* where a call goes on when its dispatch has returned
after_dispatch(fn) == IF fn = "draw" THEN "wait" ELSE "returned"
\* the call on the mesh was left, by return or by an exception
Left == mpc.at \in {"returned", "raised"}

\* Mesh::dispatch, lines 783-791, 717-730 and 751-757: the switch and the tests
\* before the loop
mesh_dispatch ==
    /\ mpc.at = "enter"
    /\ mpc' = [mpc EXCEPT !.at = IF size \div 3 = 0 THEN after_dispatch(mpc.fn) ELSE "loop"]
    /\ mi' = 0
    /\ UNCHANGED <<mesh, raising, assembled, mtasks, running>>
    /\ UNCHANGED outside_mesh

\* one turn of the loop of lines 732-740 or 759-767: raster.dispatch(p0, p1, p2,
\* futures), whose darea invokes screen on the three points; an exception leaves
\* dispatch, and draw with it, neither of which catches
mesh_triangle ==
    /\ mpc.at = "loop"
    /\ mi + 2 < size
    /\ assembled' = Append(assembled, assemble(mi))
    /\ IF raises("screen", assemble(mi))
       THEN /\ mpc' = [mpc EXCEPT !.at = "raised", !.err = "screen"]
            /\ UNCHANGED <<mi, mtasks>>
       ELSE /\ mtasks' = mtasks \o [n \in 1..Len(submitted(assemble(mi))) |->
                                      Job(submitted(assemble(mi))[n], Len(assembled) + 1)]
            /\ mi' = next_index(mesh.primitive, mi)
            /\ UNCHANGED mpc
    /\ UNCHANGED <<mesh, raising, running>>
    /\ UNCHANGED outside_mesh

\* the loop's test fails: dispatch returns
mesh_dispatch_return ==
    /\ mpc.at = "loop"
    /\ ~(mi + 2 < size)
    /\ mpc' = [mpc EXCEPT !.at = after_dispatch(mpc.fn)]
    /\ mi' = 0
    /\ UNCHANGED <<mesh, raising, assembled, mtasks, running>>
    /\ UNCHANGED outside_mesh

\* Mesh::draw, lines 804-805: commands[i].wait() returns when the future is ready,
\* whatever it holds
draw_wait ==
    /\ mpc.at = "wait"
    /\ mi < Len(mtasks)
    /\ ready(mtasks[mi + 1])
    /\ mi' = mi + 1
    /\ UNCHANGED <<mesh, raising, mpc, assembled, mtasks, running>>
    /\ UNCHANGED outside_mesh

\* Mesh::draw, line 806: the loop is over and draw returns
draw_return ==
    /\ mpc.at = "wait"
    /\ ~(mi < Len(mtasks))
    /\ mpc' = [mpc EXCEPT !.at = "returned"]
    /\ UNCHANGED <<mesh, raising, mi, assembled, mtasks, running>>
    /\ UNCHANGED outside_mesh

\* thread_pool_worker::run, lines 119-122: get_next_task gives worker w a task
\* of the pool, and the worker calls it
worker_take(w) ==
    /\ running[w] = Waiting
    /\ \E n \in 1..Len(mtasks) :
        /\ mtasks[n].state = "queued"
        /\ mtasks' = [mtasks EXCEPT ![n].state = "running", ![n].by = w]
        /\ running' = [running EXCEPT ![w] = n]
    /\ UNCHANGED <<mesh, raising, mpc, mi, assembled>>
    /\ UNCHANGED outside_mesh

\* the task of worker w invokes the painter.  When the painter raises, the
\* std::packaged_task stores the exception in the shared state of the future
\* (thread_utils.hpp:212-217) and the call t(id) of run returns
task_painter(w) ==
    /\ running[w] # Waiting
    /\ mtasks[running[w]].state = "running"
    /\ mtasks' = [mtasks EXCEPT
                    ![running[w]].painter = IF Left THEN "after the call" ELSE "in the call",
                    ![running[w]].state = IF raises("painter", mtasks[running[w]].t)
                                          THEN "failed" ELSE "painted"]
    /\ running' = [running EXCEPT ![w] = IF raises("painter", mtasks[running[w]].t)
                                         THEN Waiting ELSE @]
    /\ UNCHANGED <<mesh, raising, mpc, mi, assembled>>
    /\ UNCHANGED outside_mesh

\* clip_rasterize returns: the future gets its value and the worker goes back to
\* get_next_task
task_return(w) ==
    /\ running[w] # Waiting
    /\ mtasks[running[w]].state = "painted"
    /\ mtasks' = [mtasks EXCEPT ![running[w]].state = "done"]
    /\ running' = [running EXCEPT ![w] = Waiting]
    /\ UNCHANGED <<mesh, raising, mpc, mi, assembled>>
    /\ UNCHANGED outside_mesh

\* enum class Primitive
Primitives == {"TriangleList", "TriangleStrip"}
\* the index buffers of SpecMesh: up to MaxIndices indices of the first three vertices
MaxIndices == 7
IndexBuffers == UNION {[1..n -> 0..2] : n \in 0..MaxIndices}
\* the host's screen raises on no vertex or on the third
ScreenRaises == {{}, {2}}
\* the host's painter raises on no vertex or on the second
PainterRaises == {{}, {1}}
\* the index buffers of SpecDraw: triangles of the first three vertices, then
\* the triangle that is bisected
DrawBuffers == {<<>>, <<0, 1>>, <<1, 0, 2>>, <<1, 1, 0, 2>>, <<1, 1, 0, 0, 3, 4>>}

InitMesh ==
    /\ QInit /\ PInit /\ GInit /\ HInit /\ KInit /\ OInit
    /\ \E b \in IndexBuffers, p \in Primitives, r \in ScreenRaises :
          MeshNew([primitive |-> p, indices |-> b], [screen |-> r, painter |-> {}], "dispatch")
NextMesh ==
    \/ mesh_dispatch
    \/ mesh_triangle
    \/ mesh_dispatch_return

InitDraw ==
    /\ QInit /\ PInit /\ GInit /\ HInit /\ KInit /\ OInit
    /\ \E b \in DrawBuffers, p \in Primitives, r \in ScreenRaises, f \in PainterRaises :
          MeshNew([primitive |-> p, indices |-> b], [screen |-> r, painter |-> f], "draw")
NextDraw ==
    \/ mesh_dispatch
    \/ mesh_triangle
    \/ mesh_dispatch_return
    \/ draw_wait
    \/ draw_return
    \/ \E w \in RasterWorkers : worker_take(w)
    \/ \E w \in RasterWorkers : task_painter(w)
    \/ \E w \in RasterWorkers : task_return(w)

(***************************************************************************)
(* The constructors and the destructor of Plane<T>  (gfx.cc:117-153)       *)
(*                                                                         *)
(* The program declares up to MaxObjects planes.  Plane has no assignment  *)
(* operator (the move constructor deletes the implicit ones), so an object *)
(* is constructed once, from extents, from a copy or from a move of a live *)
(* object, and destroyed once.  A buffer holds one value for all its       *)
(* cells; `new T[]` leaves it uninitialized.                               *)
(***************************************************************************)
\* the values of a cell
Bytes == {0, 1}
Alive(o) == objs[o].state = "alive"
\* the buffer `new T[width * height]` returns
Unused == {b \in Buffers : heap[b].state = "unused"}
new == CHOOSE b \in Unused : \A c \in Unused : b <= c
\* what source._owns gives the new object of the move constructor: line 151 sets
\* _owns to true whatever the source held
owns_after_move(source_owns) == TRUE

\* Plane(width, height), lines 117-122
plane_ctor(o) ==
    /\ objs[o].state = "none"
    /\ Unused # {}
    /\ \E v \in Bytes :
          heap' = [heap EXCEPT ![new] = [state |-> "live", cells |-> v, frees |-> 0]]
    /\ objs' = [objs EXCEPT ![o] = [state |-> "alive", data |-> new, owns |-> TRUE,
                                     from |-> "extents"]]
    /\ UNCHANGED sample
    /\ UNCHANGED outside_objects

\* Plane(const Plane& source), lines 132-143: a new buffer and the memcpy of the
\* source's; reading a buffer that was freed gives any value
plane_copy(o, source) ==
    /\ objs[o].state = "none"
    /\ Alive(source)
    /\ Unused # {}
    /\ \E v \in Bytes :
          /\ heap[objs[source].data].state = "live" => v = heap[objs[source].data].cells
          /\ heap' = [heap EXCEPT ![new] = [state |-> "live", cells |-> v, frees |-> 0]]
    /\ objs' = [objs EXCEPT ![o] = [state |-> "alive", data |-> new, owns |-> TRUE,
                                     from |-> "copy"]]
    /\ UNCHANGED sample
    /\ UNCHANGED outside_objects

\* Plane(Plane&& source), lines 146-153
plane_move(o, source) ==
    /\ objs[o].state = "none"
    /\ Alive(source)
    /\ objs' = [objs EXCEPT
                  ![o] = [state |-> "alive", data |-> objs[source].data,
                          owns |-> owns_after_move(objs[source].owns),
                          from |-> IF objs[source].owns THEN "move" ELSE "move of moved-from"],
                  ![source].owns = FALSE]
    /\ UNCHANGED <<heap, sample>>
    /\ UNCHANGED outside_objects

\* ~Plane(), lines 124-129: delete[] _data when _owns
plane_dtor(o) ==
    /\ Alive(o)
    /\ objs' = [objs EXCEPT ![o].state = "destroyed"]
    /\ heap' = IF objs[o].owns
               THEN [heap EXCEPT ![objs[o].data].state = "freed", ![objs[o].data].frees = @ + 1]
               ELSE heap
    /\ UNCHANGED sample
    /\ UNCHANGED outside_objects

\* at(x, y) = v on live object o, lines 201-205, its buffer not being freed
plane_store(o, v) ==
    /\ Alive(o)
    /\ heap[objs[o].data].state = "live"
    /\ heap[objs[o].data].cells # v
    /\ heap' = [heap EXCEPT ![objs[o].data].cells = v]
    /\ UNCHANGED <<objs, sample>>
    /\ UNCHANGED outside_objects

InitObjects == QInit /\ PInit /\ GInit /\ HInit /\ KInit /\ MInit /\ OInit
NextObjects ==
    \/ \E o \in Objects : plane_ctor(o)
    \/ \E o, source \in Objects : plane_copy(o, source)
    \/ \E o, source \in Objects : plane_move(o, source)
    \/ \E o \in Objects : plane_dtor(o)
    \/ \E o \in Objects, v \in Bytes : plane_store(o, v)

(***************************************************************************)
(* Sampler::at  (gfx.cc:295-326)                                           *)
(*                                                                         *)
(* A double is a multiple of 1/Den, an infinity or a NaN.  The conversion  *)
(* of a double to the std::uint32_t parameter of Plane::at is undefined    *)
(* for a NaN: a build that converts with cvttsd2si gets 0, a build that    *)
(* converts with vcvttsd2usi gets 2^32 - 1.                                *)
(***************************************************************************)
Den == 4
Finite(n) == [k |-> "finite", n |-> n]
Inf(sign) == [k |-> "inf", n |-> sign]
NaN == [k |-> "nan", n |-> 0]
\* x * (double) w for an extent w >= 1
times(x, w) == IF x.k = "finite" THEN Finite(x.n * w) ELSE x
\* a < b on doubles: false when either is a NaN
lt(a, b) ==
    /\ a.k # "nan" /\ b.k # "nan"
    /\ \/ a.k = "finite" /\ b.k = "finite" /\ a.n < b.n
       \/ a.k = "finite" /\ b.k = "inf" /\ b.n > 0
       \/ a.k = "inf" /\ a.n < 0 /\ b.k = "finite"
       \/ a.k = "inf" /\ b.k = "inf" /\ a.n < b.n
\* std::clamp(v, lo, hi), which is (v < lo) ? lo : (hi < v) ? hi : v
clamp(v, lo, hi) == IF lt(v, lo) THEN lo ELSE IF lt(hi, v) THEN hi ELSE v
\* std::floor and std::ceil
floor(x) == IF x.k = "finite" THEN Finite((x.n \div Den) * Den) ELSE x
ceil(x) == IF x.k = "finite" THEN Finite(-(((-x.n) \div Den) * Den)) ELSE x
\* what the builds give for the conversion of a double that std::uint32_t cannot hold
Unrepresentable == {U32(0), U32Max}
\* the conversion of the integral double x to std::uint32_t, in a build that gives
\* ub for the doubles it is undefined for
to_u32(x, ub) == IF x.k = "finite" /\ x.n >= 0 THEN U32(x.n \div Den) ELSE ub
\* _check_bounds on converted coordinates
range_error(pl, x, y) == ~u_gt(U32(pl.width), x) \/ ~u_gt(U32(pl.height), y)
\* x and y of lines 298-306, from the arguments x and y of at: line 300 replaces
\* y by height - 1, and line 306 clamps x, not y, into y
sampler_x(pl, x) == clamp(times(x, pl.width), Finite(0), Finite((pl.width - 1) * Den))
sampler_y(pl, x, y) == clamp(sampler_x(pl, x), Finite(0), Finite((pl.height - 1) * Den))
\* the four calls of _plane.at, lines 309-312, in order
neighbourhood(x, y, ub) ==
    << <<to_u32(floor(x), ub), to_u32(ceil(y), ub)>>,
       <<to_u32(floor(x), ub), to_u32(floor(y), ub)>>,
       <<to_u32(ceil(x), ub), to_u32(ceil(y), ub)>>,
       <<to_u32(ceil(x), ub), to_u32(floor(y), ub)>> >>
\* the calls made until one throws, that one included
RECURSIVE until_error(_, _)
until_error(pl, calls) ==
    IF calls = <<>> THEN <<>>
    ELSE IF range_error(pl, calls[1][1], calls[1][2]) THEN <<calls[1]>>
    ELSE <<calls[1]>> \o until_error(pl, Tail(calls))

\* at(x, y) on the sampler of `plane`
sampler_at ==
    /\ sample.pc = "call"
    /\ \E ub \in Unrepresentable :
        LET x == sampler_x(plane, sample.x)
            y == sampler_y(plane, sample.x, sample.y)
            calls == until_error(plane, neighbourhood(x, y, ub))
            last == calls[Len(calls)]
        IN sample' = [sample EXCEPT
                        !.pc = IF range_error(plane, last[1], last[2])
                               THEN "range_error" ELSE "returned",
                        !.reads = calls]
    /\ UNCHANGED <<objs, heap>>
    /\ UNCHANGED outside_objects

\* the planes a sampler is made for, and the arguments of at
MaxExtent == 3
MaxCoord == 8
SamplerCoords == {Finite(n) : n \in (-Den)..MaxCoord} \cup {Inf(1), Inf(-1), NaN}
InitSampler ==
    /\ QInit /\ PInit /\ GInit /\ KInit /\ MInit
    /\ \E w, h \in 1..MaxExtent : PlaneNew(w, h)
    /\ \E x, y \in SamplerCoords : ObjectsNew([pc |-> "call", x |-> x, y |-> y, reads |-> <<>>])
NextSampler == sampler_at

vars == <<qvars, pvars, gvars, hvars, kvars, mvars, ovars>>

InitQ == QInit /\ PInit /\ GInit /\ HInit /\ KInit /\ MInit /\ OInit
SpecQ == InitQ /\ [][QNext]_vars

\* A woken thread is runnable and every critical section of the queue is finite,
\* so it gets the lock again.
FairSpecQ == SpecQ /\ \A t \in QThreads : WF_vars(dequeue_wake(t))

InitPool == PInit /\ QInit /\ GInit /\ HInit /\ KInit /\ MInit /\ OInit
SpecPool == InitPool /\ [][PNext]_vars

\* Every thread that can take a step is scheduled, every callable returns, and a
\* submit_task call that drew its ticket goes on to enqueue.  Nothing obliges the
\* pool's owner to submit, nor to destroy the pool.
FairSpecPool ==
    /\ SpecPool
    /\ \A w \in WorkerIdx : WF_vars(WorkerStep(w))
    /\ WF_vars(MainStep)

SpecRR == InitRR /\ [][NextRR]_vars

SpecAll == InitAll /\ [][NextAll]_vars

SpecLocal == InitLocal /\ [][NextLocal]_vars

SpecDispatch == InitDispatch /\ [][NextDispatch]_vars

SpecCallbacks == InitCallbacks /\ [][NextCallbacks]_vars

SpecRaster == InitRaster /\ [][NextRaster]_vars

SpecPlane == InitPlane /\ [][NextPlane]_vars

SpecPaint == InitPaint /\ [][NextPaint]_vars

\* Every worker thread that can take a step is scheduled: a task that is not
\* waiting for a mutex goes on, and a task whose mutex stays free gets it.
FairSpecPaint == SpecPaint /\ \A t \in Painters : WF_vars(PainterStep(t))

SpecMesh == InitMesh /\ [][NextMesh]_vars

SpecDraw == InitDraw /\ [][NextDraw]_vars

SpecObjects == InitObjects /\ [][NextObjects]_vars

SpecSampler == InitSampler /\ [][NextSampler]_vars

(***************************************************************************)
(* Properties of work_queue.                                               *)
(***************************************************************************)
RemovedValues == {rmLog[i].val : i \in 1..Len(rmLog)}
RemovedSeq == [i \in 1..Len(rmLog) |-> rmLog[i].val]
\* position of an enqueued value in the order the enqueues took effect
EnqPos(v) == CHOOSE i \in 1..Len(enqLog) : enqLog[i] = v
OldestOf(s) == CHOOSE v \in Range(s) : \A w \in Range(s) : EnqPos(v) <= EnqPos(w)
NewestOf(s) == CHOOSE v \in Range(s) : \A w \in Range(s) : EnqPos(v) >= EnqPos(w)
InDequeue == {t \in QThreads : qpc[t] # "idle"}
Woken == {t \in QThreads : qpc[t] = "woken"}

\* C6: whatever the interleaving of enqueue, dequeue, try_dequeue and try_steal,
\* every enqueued value is either still in the queue or was handed out by exactly
\* one successful removal (none lost, none handed out twice), and once as many
\* removals as enqueues have succeeded the queue is empty.
C6_ExactlyOnce ==
    /\ NoDup(RemovedSeq)
    /\ NoDup(q)
    /\ RemovedValues \cup Range(q) = Range(enqLog)
    /\ RemovedValues \cap Range(q) = {}
    /\ (Len(rmLog) = Len(enqLog) => q = <<>>)
    /\ (lastOp.ok /\ lastOp.op # "enqueue" =>
            /\ lastOp.val \in Range(lastOp.qBefore)
            /\ rmLog[Len(rmLog)].val = lastOp.val)

\* C6 witness: two values went in and both came out, the last one by a steal, the
\* other one through a dequeue, by different threads.
C6_Witness ==
    /\ Len(enqLog) = 2 /\ Len(rmLog) = 2 /\ q = <<>>
    /\ rmLog[1].op = "dequeue" /\ rmLog[2].op = "try_steal"
    /\ rmLog[1].th # rmLog[2].th

\* C7: dequeue and try_dequeue hand out the oldest value present, and while one
\* consumer thread has done all the removals, with these two operations only, the
\* values have come out in the order their enqueues took effect.
C7_FifoOrder ==
    /\ (lastOp.ok /\ lastOp.op \in {"dequeue", "dequeue_wake", "try_dequeue"} =>
            lastOp.val = OldestOf(lastOp.qBefore))
    /\ ((\A i \in 1..Len(rmLog) : rmLog[i].op # "try_steal" /\ rmLog[i].th = rmLog[1].th)
            => IsPrefix(RemovedSeq, enqLog))

\* C7 witness: one consumer took two values, one by dequeue after having waited and
\* one by try_dequeue, while two values were in the queue at the same time.
C7_Witness ==
    /\ Len(rmLog) = 2
    /\ rmLog[1].th = rmLog[2].th
    /\ {rmLog[1].op, rmLog[2].op} = {"dequeue", "try_dequeue"}
    /\ Len(lastOp.qBefore) = 1
    /\ lastOp.op = "try_dequeue"

\* C8: try_steal hands out the back of the queue, which is the most recently
\* enqueued value present, and removes just that; try_steal and try_dequeue on an
\* empty queue answer false at once, leaving the queue and the caller's reference
\* as they were.
C8_StealAndFail ==
    /\ (lastOp.op = "try_steal" /\ lastOp.qBefore # <<>> =>
            /\ lastOp.ok
            /\ lastOp.val = lastOp.qBefore[Len(lastOp.qBefore)]
            /\ lastOp.val = NewestOf(lastOp.qBefore)
            /\ ref[lastOp.th] = lastOp.val
            /\ q = SubSeq(lastOp.qBefore, 1, Len(lastOp.qBefore) - 1))
    /\ (lastOp.op \in {"try_steal", "try_dequeue"} /\ lastOp.qBefore = <<>> =>
            /\ ~lastOp.ok
            /\ q = <<>>
            /\ ref[lastOp.th] = lastOp.refBefore
            /\ qpc[lastOp.th] = "idle")

\* C8 witness: a try_steal has just failed on the empty queue for a thread whose
\* reference held a value, after the first removal had been a steal of the second
\* enqueued value from under the first.
C8_Witness ==
    /\ lastOp.op = "try_steal" /\ ~lastOp.ok
    /\ lastOp.refBefore # NoValue
    /\ Len(rmLog) = 2 /\ rmLog[1].op = "try_steal" /\ rmLog[1].val = enqLog[2]

\* a value is in the queue while a thread is inside dequeue
DequeuePending == q # <<>> /\ InDequeue # {}

\* C9: dequeue returns only with a value taken from the non-empty queue; no wake-up
\* is lost (as many threads are awake inside dequeue as there are values for them);
\* and, a woken thread being scheduled, values are not left in the queue while
\* threads are blocked in dequeue: of m blocked threads and k <= m values, k return
\* and m-k stay blocked.
C9_NoLostWakeup ==
    /\ [](/\ (lastOp.op \in {"dequeue", "dequeue_wake"} =>
                /\ lastOp.qBefore # <<>>
                /\ lastOp.val \in Range(enqLog))
          /\ Cardinality(Woken) >= Min(Len(q), Cardinality(InDequeue)))
    /\ (DequeuePending ~> ~DequeuePending)

\* C9 witness: two threads were blocked in dequeue, one value was enqueued, one of
\* the two has returned with it and the other is still blocked.
C9_Witness ==
    /\ lastOp.op = "dequeue_wake"
    /\ Len(enqLog) = 1 /\ Len(rmLog) = 1 /\ q = <<>>
    /\ \E t \in QThreads : qpc[t] = "wait"

(***************************************************************************)
(* Properties of thread_pool.                                              *)
(***************************************************************************)
\* the tasks submitted by a call of the given sort
SubmittedAs(how) == {t \in Tasks : task[t].how = how}
\* the workers a task is queued on or held by, and the workers that invoked it
QueuedExternallyOn(t) == {w \in WorkerIdx : t \in Range(external_tasks[w])}
QueuedLocallyOn(t) == {w \in WorkerIdx : t \in Range(local_tasks[w])}
HeldBy(t) == {w \in WorkerIdx : cur[w] = t}
\* every invocation of t was made by worker k, with k as the thread id argument
RanOnlyOn(t, k) == \A i \in 1..Len(task[t].execBy) : task[t].execBy[i] = <<k, k>>

\* C1: a task that code running on worker k submits with submit_task(task, true)
\* goes on k's local queue and on no external queue, is held and invoked by worker
\* k only, with thread id k, and is not dropped.
C1_LocalSubmission ==
    \A t \in SubmittedAs("local") :
        /\ QueuedExternallyOn(t) = {}
        /\ QueuedLocallyOn(t) \subseteq {task[t].target}
        /\ HeldBy(t) \subseteq {task[t].target}
        /\ RanOnlyOn(t, task[t].target)
        /\ t \notin lost

\* The same while worker_ids is alive (the pool's destruction has not begun): there
\* the code does what C1 says.
LocalSubmissionWhileAlive ==
    \A t \in SubmittedAs("local") :
        task[t].live =>
            /\ QueuedExternallyOn(t) = {}
            /\ QueuedLocallyOn(t) \subseteq {task[t].target}
            /\ HeldBy(t) \subseteq {task[t].target}
            /\ RanOnlyOn(t, task[t].target)
            /\ t \notin lost
            /\ Len(task[t].execBy) <= 1

\* C2: a task given to submit_task_for(tid, task) is found on worker tid's external
\* queue and on no other queue of any worker; only worker tid takes it and invokes
\* it, with thread id tid; until then it waits on that queue.
C2_SubmitTaskFor ==
    \A t \in SubmittedAs("for") :
        /\ QueuedExternallyOn(t) \subseteq {task[t].target}
        /\ QueuedLocallyOn(t) = {}
        /\ HeldBy(t) \subseteq {task[t].target}
        /\ RanOnlyOn(t, task[t].target)
        /\ Len(task[t].execBy) <= 1
        /\ (task[t].fut = "pending" /\ HeldBy(t) = {} => QueuedExternallyOn(t) = {task[t].target})

\* C2 witness: a task submitted for worker 1 was invoked by worker 1 while worker 0
\* sat idle in its wait.
C2_Witness ==
    \E t \in SubmittedAs("for") :
        /\ task[t].target = 1
        /\ task[t].execBy = << <<1, 1>> >>
        /\ wpc[0] = "wait"
        /\ \A u \in Tasks : u # t => task[u].execBy = <<>>

\* the tasks that hold a ticket of next_worker, drawn by a thread outside the pool
Ticketed == SubmittedAs("drawn") \cup SubmittedAs("rr")
\* worker_count divides 2^32, so that ticket 0 follows ticket 2^32-1 modulo it
WrapsEvenly == u32_mod(U32Max, worker_count) = worker_count - 1
\* the tasks t, t+1, ..., t+n-1: n submissions one after the other
Window(t, n) == t..(t + n - 1)
PairwiseDistinctTargets(S) == \A a, b \in S : a # b => task[a].target # task[b].target

\* C3 as claimed: two tickets drawn one after the other by one outside thread choose
\* workers w and (w+1) mod N, whatever the counter's value, across its wrap too.
C3_SuccessiveAlways ==
    \A t \in Ticketed :
        (t + 1 \in Ticketed /\ task[t + 1].by = task[t].by)
            => task[t + 1].target = (task[t].target + 1) % worker_count

\* C3 amended: they choose w and (w+1) mod N unless the first ticket is 2^32-1 and N
\* does not divide 2^32; the ticket after 2^32-1 is 0 and chooses worker 0.
C3_SuccessiveUnlessWrap ==
    \A t \in Ticketed :
        (t + 1 \in Ticketed /\ task[t + 1].by = task[t].by) =>
            /\ (task[t].ticket # U32Max \/ WrapsEvenly
                    => task[t + 1].target = (task[t].target + 1) % worker_count)
            /\ (task[t].ticket = U32Max => task[t + 1].target = 0)
            /\ task[t].target = u32_mod(task[t].ticket, worker_count)

\* C3 witness: one thread drew three tickets in a row on a pool of two workers,
\* the counter wrapping after the second, and the workers alternated.
C3_Witness ==
    /\ worker_count = 2
    /\ Ticketed = 1..3
    /\ \A t \in 1..3 : task[t].by = task[1].by
    /\ task[2].ticket = U32Max /\ task[3].ticket = U32(0)
    /\ <<task[1].target, task[2].target, task[3].target>> = <<0, 1, 0>>

\* C4 as claimed: no two submissions hold the same ticket, and any N submissions in
\* a row go to N different workers, whatever the interleaving of the submitters.
C4_DistinctAlways ==
    /\ \A a, b \in Ticketed : a # b => task[a].ticket # task[b].ticket
    /\ \A t \in Ticketed :
          Window(t, worker_count) \subseteq Ticketed
              => PairwiseDistinctTargets(Window(t, worker_count))

\* C4 amended: the same for N submissions in a row whose tickets do not span the
\* wrap of the counter, and for all of them when N divides 2^32; each of these
\* tasks is queued on, or held by, the worker its ticket chose and no other.
C4_DistinctUnlessWrap ==
    /\ \A a, b \in Ticketed : a # b => task[a].ticket # task[b].ticket
    /\ \A t \in Ticketed :
          (/\ Window(t, worker_count) \subseteq Ticketed
           /\ (WrapsEvenly \/ \A u \in Window(t, worker_count - 1) : task[u].ticket # U32Max))
              => PairwiseDistinctTargets(Window(t, worker_count))
    /\ \A t \in Ticketed :
          /\ QueuedExternallyOn(t) \cup HeldBy(t) \subseteq {task[t].target}
          /\ RanOnlyOn(t, task[t].target)

\* C4 witness: three tasks submitted in a row to an idle pool of three workers, by
\* two outside threads, are being run by the three workers at the same time.
C4_Witness ==
    /\ worker_count = 3
    /\ \A w \in Workers : wpc[w] = "run"
    /\ {cur[w] : w \in Workers} = 1..3
    /\ \E t \in 1..3 : task[t].by # task[1].by

\* a submission that the pool accepted while it was not being destroyed
Accepted(t) == task[t].how \in {"for", "rr", "local"} /\ task[t].live
\* t was invoked once and its future is ready with what its callable returned
Served(t) ==
    /\ Len(task[t].execBy) = 1
    /\ task[t].fut = "ready"
    /\ task[t].val = TaskResult(t)

NeverExecuted(t) == task[t].how # "none" /\ task[t].execBy = <<>>

\* C11: once the pool is destroyed, no submitted task that was never executed has
\* a pending future: its future holds the broken-promise error, and keeps it.
C11_BrokenOnShutdown ==
    /\ [](mainpc.pc = "done" =>
            \A t \in Tasks : NeverExecuted(t) => task[t].fut = "broken")
    /\ [][\A t \in Tasks : task[t].fut = "broken" => task'[t].fut = "broken"]_vars

\* The same for the tasks that reached the queue of a worker not yet destroyed:
\* there the code does what C11 says.
BrokenWhenLeftQueued ==
    /\ [](mainpc.pc = "done" =>
            \A t \in Tasks : NeverExecuted(t) /\ t \notin lost => task[t].fut = "broken")
    /\ [](\A t \in Tasks : task[t].fut = "broken" => NeverExecuted(t) /\ ~task[t].live)
    /\ [][\A t \in Tasks : task[t].fut = "broken" => task'[t].fut = "broken"]_vars

\* a never-executed task was left on a worker's queue behind the poison task and its
\* future was broken when the worker was destroyed
BrokenReached ==
    /\ mainpc.pc = "done"
    /\ \E t \in Tasks : NeverExecuted(t) /\ task[t].fut = "broken"

\* C12: submit_all returns one future per task, in the tasks' order; called inside
\* worker k, the first task goes on k's local queue and the i-th task (from 0) to
\* worker (k+i) mod N; called outside the pool, every task is submitted externally.
C12_SubmitAllSpread ==
    \A th \in AllThreads :
        batch[th].pc # "none" =>
            /\ batch[th].res = SubSeq(batch[th].tasks, 1, Len(batch[th].res))
            /\ (batch[th].pc = "done" => batch[th].res = batch[th].tasks)
            /\ \A i \in 1..Len(batch[th].res) :
                  IF batch[th].inside
                  THEN /\ task[batch[th].res[i]].target = (batch[th].current + i - 1) % worker_count
                       /\ (i = 1 => task[batch[th].res[i]].how = "local")
                  ELSE task[batch[th].res[i]].how = "rr"

\* What the code does: inside worker k the tasks whose place in the batch is a
\* multiple of N go on k's local queue, and every other task, like every task of
\* a call made outside the pool, goes to the worker that the pool-wide counter
\* next_worker chooses; the futures are returned one per task, in order.
SubmitAllAsCoded ==
    \A th \in AllThreads :
        batch[th].pc # "none" =>
            /\ batch[th].res = SubSeq(batch[th].tasks, 1, Len(batch[th].res))
            /\ (batch[th].pc = "done" => batch[th].res = batch[th].tasks)
            /\ \A i \in 1..Len(batch[th].res) :
                  IF batch[th].inside /\ (i - 1) % worker_count = 0
                  THEN /\ task[batch[th].res[i]].how = "local"
                       /\ task[batch[th].res[i]].target = batch[th].current
                       /\ QueuedExternallyOn(batch[th].res[i]) = {}
                       /\ RanOnlyOn(batch[th].res[i], batch[th].current)
                  ELSE /\ task[batch[th].res[i]].how = "rr"
                       /\ task[batch[th].res[i]].target =
                              u32_mod(task[batch[th].res[i]].ticket, worker_count)
                       /\ QueuedLocallyOn(batch[th].res[i]) = {}
                       /\ RanOnlyOn(batch[th].res[i], task[batch[th].res[i]].target)

\* a call made inside worker 0 of a pool of two workers has returned two futures,
\* the second task having gone to worker 0's external queue
SubmitAllReached ==
    /\ worker_count = 2
    /\ batch[PoolThread(0)].pc = "done"
    /\ Len(batch[PoolThread(0)].res) = 2
    /\ task[batch[PoolThread(0)].res[2]].target = 0

(***************************************************************************)
(* Properties of Raster::dispatch and Raster::bissect.                     *)
(***************************************************************************)
\* the area of the bounding box of the screen points of t, as a number
area(t) == mul_exact(width(t), height(t))
\* the top-level dispatch call has returned
Dispatched == tri # <<>> /\ stack = <<>>
\* the top-level dispatch call is past its area test
Tested == tri # <<>> /\ (stack = <<>> \/ stack[1].pc # "enter")

\* C13: a triangle of area <= 65536 gets exactly one task and one future and is not
\* bisected; a triangle of area > 65536 is bisected, unless its two children's
\* areas sum to more than its own, and then it gets a single task.
C13_DispatchThreshold ==
    Dispatched =>
        IF u_le(area(tri), U32(TESSEL_AREA_THRESHOLD))
        THEN futures = <<tri>> /\ bisected = {}
        ELSE IF u_le(u64_add(area(bissect(tri).t0), area(bissect(tri).t1)), area(tri))
             THEN tri \in bisected
             ELSE futures = <<tri>> /\ bisected = {}

\* The same with the areas as darea computes them, in 32 bits: this is what the
\* code does.
DispatchThresholdIn32Bits ==
    Dispatched =>
        IF u_le(darea(tri), U32(TESSEL_AREA_THRESHOLD))
        THEN futures = <<tri>> /\ bisected = {}
        ELSE IF u_le(u64_add(darea(bissect(tri).t0), darea(bissect(tri).t1)), darea(tri))
             THEN tri \in bisected
             ELSE futures = <<tri>> /\ bisected = {}

\* C34: dispatch terminates: the recursion is never on a triangle that a call in
\* progress is already dispatching, which would repeat that call without end.
C34_DispatchTerminates ==
    \A i, j \in 1..Len(stack) : i < j => stack[i].t # stack[j].t
\* What the code guarantees: dispatch recurses only on a child whose area, as
\* darea computes it, is not greater than that of its parent.
RecursesOnNoLargerChild ==
    \A i \in 1..(Len(stack) - 1) : u_le(darea(stack[i + 1].t), darea(stack[i].t))
\* a bisected triangle whose children are both smaller than itself
RecursedOnSmaller ==
    /\ Len(stack) = 2
    /\ u_gt(darea(stack[1].t), darea(stack[2].t))
    /\ stack[1].pc = "submit"

\* C35: darea returns the product of the width and the height of the bounding
\* box as a 64-bit number, without wrapping modulo 2^32.
C35_DareaExact ==
    Tested => darea(tri) = area(tri)
\* What the code guarantees: darea is exact when the product is below 2^32.
DareaExactBelow32Bits ==
    (Tested /\ area(tri)[1] < Half) => darea(tri) = area(tri)

\* C14: no task is submitted for a triangle that dispatch recursed on: the futures
\* are those of the leaves of the bisection tree.
C14_LeavesOnly ==
    \A i \in 1..Len(futures) : futures[i] \notin bisected

\* C15: of the three candidate splits, bissect returns one whose larger child area
\* is the smallest.
C15_BissectMinMax ==
    Tested /\ u_gt(darea(tri), U32(TESSEL_AREA_THRESHOLD)) =>
        /\ u_le(bissect(tri).max, make(tri[1], tri[2], tri[3]).max)
        /\ u_le(bissect(tri).max, make(tri[2], tri[3], tri[1]).max)
        /\ u_le(bissect(tri).max, make(tri[3], tri[1], tri[2]).max)

\* What bissect returns: one of the three candidate splits, each made of a side cut
\* at its middle with the opposite vertex in both children, and one whose larger
\* child area is the largest.
BissectMaxMax ==
    Tested /\ u_gt(darea(tri), U32(TESSEL_AREA_THRESHOLD)) =>
        /\ bissect(tri) \in {make(tri[1], tri[2], tri[3]), make(tri[2], tri[3], tri[1]),
                             make(tri[3], tri[1], tri[2])}
        /\ u_le(make(tri[1], tri[2], tri[3]).max, bissect(tri).max)
        /\ u_le(make(tri[2], tri[3], tri[1]).max, bissect(tri).max)
        /\ u_le(make(tri[3], tri[1], tri[2]).max, bissect(tri).max)

(***************************************************************************)
(* Properties of the pipeline callbacks and of the pipeline's order.       *)
(***************************************************************************)
\* C16: invoking a callback that the host did not assign throws the Raster's own
\* "raster call missing ..." error, whichever of the seven callbacks it is.
C16_MissingCallback ==
    thrown.call # "none" /\ ~thrown.set => thrown.what = "raster call missing"

\* The same for the six callbacks other than project, and a callback that the host
\* assigned throws nothing of the Raster's: this is what the code does.
MissingCallbackButProject ==
    /\ (thrown.call \in Callbacks \ {"project"} /\ ~thrown.set
            => thrown.what = "raster call missing")
    /\ (thrown.call = "project" /\ ~thrown.set => thrown.what = "bad_function_call")
    /\ (thrown.call # "none" /\ thrown.set => thrown.what = "none")

(***************************************************************************)
(* Properties of clip_rasterize and rasterize.                             *)
(***************************************************************************)
\* a point with stages st has been through transform and, after it, project
Through(st) ==
    \E i, j \in 1..Len(st) : i < j /\ st[i] = "transform" /\ st[j] = "project"

\* C17: the stages are applied in the order transform, tessellate, project,
\* screen: every point screen() is invoked on while a triangle is processed, in
\* the area computation of dispatch as in the task, has been through transform
\* and project.
C17_StageOrder == \A st \in screened : Through(st)

\* What the code does inside the task: rasterize screens the vertices and the
\* edge points of every row after transform, tesselation and project, in this
\* order.
ScreenInTask == \A st \in screened : st = <<"transform", "tesselation", "project">>

\* the rows and, per row, the columns of the inclusive scan range of the
\* rasterize call with locals r: row y belongs to the half-range [y0, y1] while
\* y < y1 (and at y1 when the triangle ends there), and to [y1, y2] from y1 on
ScanRows(r) == Max(r.y0, r.sc.top)..Min(r.y2, r.sc.bottom)
RowAt(r, y) ==
    IF y < r.y1 \/ r.y1 = r.y2
    THEN [r EXCEPT !.y = y, !.yt = r.y0, !.ye = r.y1, !.short = <<r.a, r.b>>]
    ELSE [r EXCEPT !.y = y, !.yt = r.y1, !.ye = r.y2, !.short = <<r.b, r.c>>]
ScanColumns(r, y) ==
    Max(span(RowAt(r, y))[1], r.sc.left)..Min(span(RowAt(r, y))[2], r.sc.right)
ScanRange(r) ==
    {px \in (r.sc.left..r.sc.right) \X ScanRows(r) : px[1] \in ScanColumns(r, px[2])}
PaintedSet == Range(painted)

\* the triangle with the screen vertices (0,0), (3,0), (0,3), and the scissor of
\* a plane of 4 x 4 pixels
S2Triangle == <<Pt(0, 0, <<>>), Pt(3 * Sub, 0, <<>>), Pt(0, 3 * Sub, <<>>)>>
S2Scissor == Scissor(0, 3, 0, 3)

\* C18: a rasterize call that returned has painted every pixel of the inclusive
\* scan range of its triangle (the triangle covering more than one row), each
\* once; for the triangle (0,0), (3,0), (0,3) on a plane of 4 x 4 pixels these are
\* the pixels x = 0..(3 - y) of the rows y = 0..3.
C18_InclusiveScan ==
    ras.pc = "done" =>
        /\ ras.y0 < ras.y2 => NoDup(painted) /\ PaintedSet = ScanRange(ras)
        /\ tri = S2Triangle /\ ras.sc = S2Scissor =>
              PaintedSet = {<<x, y>> \in (0..3) \X (0..3) : x <= 3 - y}

\* What the code does for that triangle: the last column of every row and the
\* last row are left out.
S2AsCoded ==
    ras.pc = "done" /\ tri = S2Triangle /\ ras.sc = S2Scissor =>
        PaintedSet = {<<x, y>> \in (0..3) \X (0..3) : x <= 2 - y}

\* C19: the painter calls of one rasterize call are in row-major order: from one
\* call to the next y does not decrease and, y being the same, x increases; so
\* no pixel is painted twice.
C19_RowMajor ==
    /\ \A i \in 1..(Len(painted) - 1) :
          \/ painted[i][2] < painted[i + 1][2]
          \/ painted[i][2] = painted[i + 1][2] /\ painted[i][1] < painted[i + 1][1]
    /\ NoDup(painted)

\* a rasterize call returned after painting several pixels of one row and
\* pixels of several rows
C19_Witness ==
    /\ ras.pc = "done"
    /\ \E i \in 1..(Len(painted) - 1) : painted[i][2] = painted[i + 1][2]
    /\ \E i \in 1..(Len(painted) - 1) : painted[i][2] < painted[i + 1][2]

\* C36: every painter call of rasterize is on a row of the triangle, y0 <= y <= y2,
\* whatever the scissor, and a triangle that ends above the top of the scissor
\* (y2 < T) is not painted at all.
C36_RowsOfTriangle ==
    ras.pc # "none" =>
        /\ \A i \in 1..Len(painted) : ras.y0 <= painted[i][2] /\ painted[i][2] <= ras.y2
        /\ ras.y2 < ras.sc.top => painted = <<>>

\* What the row loop of rasterize guarantees instead: no row is above the
\* triangle, and a row below it is the single row y = T of a scissor whose top
\* is below the triangle, painted only when the bend is above the last row
\* (y1 < y2).
RowsOfTriangleOrScissorTop ==
    ras.pc # "none" =>
        /\ \A i \in 1..Len(painted) :
              /\ ras.y0 <= painted[i][2]
              /\ painted[i][2] <= ras.y2 \/ painted[i][2] = ras.sc.top
        /\ (ras.y2 < ras.sc.top /\ painted # <<>>) =>
              /\ ras.y1 < ras.y2
              /\ \A i \in 1..Len(painted) : painted[i][2] = ras.sc.top

\* A row below the last row of the triangle has been painted.
PaintedBelowTriangle ==
    /\ ras.pc = "done"
    /\ \E i \in 1..Len(painted) : painted[i][2] > ras.y2

\* the point rasterize sorts for the i-th point of the triangle it was handed
Projected(i) == project(tesselation(transform(tri[i])))

\* C37: after the three compare-and-swap steps of rasterize the screen
\* coordinates are in lexicographic order, (y0,x0) <= (y1,x1) <= (y2,x2), for
\* every order of the input, ties included, and a, b, c are the points of the
\* triangle under the same permutation as their screen coordinates.
C37_SortedVertices ==
    ras.pc # "none" =>
        /\ ras.y0 < ras.y1 \/ (ras.y0 = ras.y1 /\ ras.x0 <= ras.x1)
        /\ ras.y1 < ras.y2 \/ (ras.y1 = ras.y2 /\ ras.x1 <= ras.x2)
        /\ \E f \in Permutations(1..3) :
              /\ <<ras.a, ras.b, ras.c>> = [i \in 1..3 |-> Projected(f[i])]
              /\ <<<<ras.x0, ras.y0>>, <<ras.x1, ras.y1>>, <<ras.x2, ras.y2>>>>
                    = [i \in 1..3 |-> screen(tri[f[i]])]
        /\ screen(ras.a) = <<ras.x0, ras.y0>>
        /\ screen(ras.b) = <<ras.x1, ras.y1>>
        /\ screen(ras.c) = <<ras.x2, ras.y2>>

\* rasterize has sorted a triangle handed over in decreasing order, its first
\* two points on one row: all three steps have swapped, and the last point of
\* the input is a.
C37_Witness ==
    /\ ras.pc = "rows"
    /\ screen(tri[1])[2] = screen(tri[2])[2]
    /\ screen(tri[1])[1] > screen(tri[2])[1]
    /\ screen(tri[2])[2] > screen(tri[3])[2]
    /\ <<ras.a, ras.b, ras.c>> = <<Projected(3), Projected(2), Projected(1)>>

\* C20: every painter call of rasterize is inside the scissor, L <= x <= R and
\* T <= y <= B, with x >= 0 and y >= 0, and the validation before the painter
\* call never fails, whatever the triangle and the scissor (all bounds of which
\* are below 2^31 in this model).
C20_InsideScissor ==
    /\ \A i \in 1..Len(painted) :
          /\ ras.sc.left <= painted[i][1] /\ painted[i][1] <= ras.sc.right
          /\ ras.sc.top <= painted[i][2] /\ painted[i][2] <= ras.sc.bottom
          /\ painted[i][1] >= 0 /\ painted[i][2] >= 0
    /\ thrown.what # FragmentOutOfBounds

\* What the code guarantees: the painter calls are inside the scissor, and the
\* validation fails only after y went past INT32_MAX, which takes a scissor
\* whose bottom is INT32_MAX.
InsideScissorUnlessLastRow ==
    /\ \A i \in 1..Len(painted) :
          /\ ras.sc.left <= painted[i][1] /\ painted[i][1] <= ras.sc.right
          /\ ras.sc.top <= painted[i][2] /\ painted[i][2] <= ras.sc.bottom
          /\ painted[i][1] >= 0 /\ painted[i][2] >= 0
    /\ thrown.what = FragmentOutOfBounds => ras.sc.bottom = INT32_MAX /\ ras.y = INT32_MIN

(***************************************************************************)
(* Properties of Plane.                                                    *)
(***************************************************************************)
\* y * W + x as an integer, written <<high, low>> like the std::uint32_t values
row_major(pl, x, y) == u64_add(mul_exact(y, pl.width), U32(x))
InRange(pl) == {c \in Coordinates \X Coordinates : c[1] < pl.width /\ c[2] < pl.height}

\* C30: at(x, y) fails exactly when x >= W or y >= H, and then leaves the plane
\* as it was; otherwise it refers to the cell at index y * W + x, and distinct
\* coordinates inside the plane refer to distinct cells; at(2, 0) on a plane of
\* 2 x 2 fails.
C30_PlaneAt ==
    /\ cell.op # "none" =>
          /\ cell.failed <=> (cell.x >= plane.width \/ cell.y >= plane.height)
          /\ cell.failed => ~cell.changed
          /\ ~cell.failed => cell.index = row_major(plane, cell.x, cell.y)
          /\ plane = [width |-> 2, height |-> 2] /\ cell.x = 2 /\ cell.y = 0 => cell.failed
    /\ \A c, d \in InRange(plane) :
          c # d => plane_index(plane, c[1], c[2]) # plane_index(plane, d[1], d[2])

\* What the code guarantees: the bounds check is as stated, a failed call leaves
\* the plane as it was, and the cell is the one at y * W + x modulo 2^32, which
\* is inside the storage and different for different coordinates when the
\* plane has fewer than 2^32 cells.
PlaneAtIn32Bits ==
    /\ cell.op # "none" =>
          /\ cell.failed <=> (cell.x >= plane.width \/ cell.y >= plane.height)
          /\ cell.failed => ~cell.changed
          /\ ~cell.failed =>
                /\ cell.index[2] = row_major(plane, cell.x, cell.y)[2]
                /\ cell.index[1] = row_major(plane, cell.x, cell.y)[1] % Half
          /\ plane = [width |-> 2, height |-> 2] /\ cell.x = 2 /\ cell.y = 0 => cell.failed
    /\ mul_exact(plane.width, plane.height)[1] < Half =>
          /\ \A c, d \in InRange(plane) :
                c # d => plane_index(plane, c[1], c[2]) # plane_index(plane, d[1], d[2])
          /\ cell.op # "none" /\ ~cell.failed => u_gt(allocated(plane), cell.index)

(***************************************************************************)
(* Properties of the game's painter.                                       *)
(***************************************************************************)
\* task t is inside the depth-test-and-write section of its painter call
InSection(t) == ptask[t].pc \in {"test", "depth", "color", "unlock"}
\* task t is inside a painter call
InPainter(t) == ptask[t].pc # "idle"
AllFinished == \A t \in Painters : Finished(t)
\* the fragments of the frame's tasks at pixel px, and the nearest of their z
FragsAt(px) == {fr \in UNION {Range(ptask[t].list) : t \in Painters} : fr.px = px}
Nearest(px) == CHOOSE z \in {fr.z : fr \in FragsAt(px)} : \A fr \in FragsAt(px) : z <= fr.z

\* C21: the painter reads depth(x,y) and writes depth(x,y) and color(x,y) only
\* while it holds lock(x,y); no two tasks are inside the depth-test-and-write
\* section of one pixel at a time; and a painter call that returned, on the
\* reject path or on the write path, has released the lock.
C21_PixelLock ==
    /\ access.held
    /\ \A t \in Painters : InSection(t) => lock[Current(t).px] = t
    /\ \A t, u \in Painters :
          t # u /\ InSection(t) /\ InSection(u) => Current(t).px # Current(u).px
    /\ \A t \in Painters : ~InSection(t) => \A px \in ScreenPixels : lock[px] # t

\* one task is writing a pixel while another waits for the lock of that pixel,
\* after a painter call that rejected its fragment and returned
C21_Witness ==
    \E t, u \in Painters :
        /\ ptask[t].pc = "color" /\ ptask[u].pc = "lock"
        /\ Current(t).px = Current(u).px
        /\ verdict[u].outcome = "reject"

\* C22: a painter call rejects its fragment exactly when the fragment's z is
\* greater than or equal to the stored depth, and then leaves depth(x,y) and
\* color(x,y) as they were; otherwise it writes the fragment's z and color.  A
\* fragment whose z equals the stored depth does not overwrite the pixel.
C22_RejectNotNearer ==
    \A t \in Painters :
        verdict[t].outcome \in {"reject", "write"} =>
            /\ verdict[t].outcome = "reject" <=> verdict[t].z >= verdict[t].before[1]
            /\ verdict[t].outcome = "reject" => verdict[t].after = verdict[t].before
            /\ verdict[t].outcome = "write" =>
                  verdict[t].after = <<verdict[t].z, shade(verdict[t].c, verdict[t].z)>>

\* What the code does: it rejects exactly the fragments whose z is greater than
\* the stored depth; a fragment whose z equals the stored depth is written.
RejectsFarther ==
    \A t \in Painters :
        verdict[t].outcome \in {"reject", "write"} =>
            /\ verdict[t].outcome = "reject" <=> verdict[t].z > verdict[t].before[1]
            /\ verdict[t].outcome = "reject" => verdict[t].after = verdict[t].before
            /\ verdict[t].outcome = "write" =>
                  verdict[t].after = <<verdict[t].z, shade(verdict[t].c, verdict[t].z)>>

\* C23: when all tasks drawn into a cleared frame have finished, every pixel
\* holds the z and the color of a fragment with the smallest z among those
\* painted there (a pixel without fragment is as it was cleared), whatever the
\* order and the interleaving of the tasks; full-plane fragments at z = 2 of
\* one task and at z = 1 of the other leave the color of the latter everywhere.
C23_NearestWins ==
    AllFinished =>
        \A px \in ScreenPixels :
            IF FragsAt(px) = {}
            THEN depth[px] = Cleared /\ color[px] = White
            ELSE /\ depth[px] = Nearest(px)
                 /\ color[px] \in {shade(fr.c, fr.z) : fr \in {g \in FragsAt(px) : g.z = Nearest(px)}}

\* both tasks have painted every pixel of the screen, one at z = 2 and the
\* other at z = 1, and the task that came last at some pixel was rejected there
C23_Witness ==
    /\ AllFinished /\ pass = 1
    /\ \E t, u \in Painters :
          /\ \A px \in ScreenPixels : Frag(px, 2, Color(t)) \in Range(ptask[t].list)
          /\ \A px \in ScreenPixels : Frag(px, 1, Color(u)) \in Range(ptask[u].list)
          /\ verdict[t].outcome = "reject"
          /\ \A px \in ScreenPixels : color[px] = shade(Color(u), 1)

\* C24: when the mesh was drawn a second time into the frame that the first
\* draw left, the color buffer is the one the first draw left, whatever the
\* interleaving of the tasks of each pass.
C24_DrawTwice == pass = 2 /\ AllFinished => color = first

\* What the code guarantees: the second draw leaves the color buffer of the
\* first when no two fragments of different colors are nearest at one pixel.
DrawTwiceWithoutTies ==
    pass = 2 /\ AllFinished =>
        \A px \in ScreenPixels :
            Cardinality({fr \in FragsAt(px) : fr.z = Nearest(px)}) <= 1 => color[px] = first[px]

\* C25: no two painter calls with the same (x, y) are in progress at one time,
\* whatever the triangles they are for.
C25_PainterExclusive ==
    \A t, u \in Painters :
        t # u /\ InPainter(t) /\ InPainter(u) => Current(t).px # Current(u).px

\* What the code guarantees: the painter calls of one task come one after the
\* other, and the game's painter keeps the calls of different tasks for one
\* pixel out of its locked section (C21).
OnlySectionExclusive ==
    \A t, u \in Painters :
        t # u /\ InSection(t) /\ InSection(u) => Current(t).px # Current(u).px

(***************************************************************************)
(* Properties of Mesh.                                                     *)
(***************************************************************************)
\* the triangle of three consecutive indices, the first being the i-th (from 0)
TriangleAt(i) == <<MeshVertices[mesh.indices[i + 1] + 1], MeshVertices[mesh.indices[i + 2] + 1],
                   MeshVertices[mesh.indices[i + 3] + 1]>>
\* the triangles of the mesh, in index order
Assembly ==
    IF mesh.primitive = "TriangleList"
    THEN [k \in 1..(Len(mesh.indices) \div 3) |-> TriangleAt(3 * (k - 1))]
    ELSE [k \in 1..Max(Len(mesh.indices) - 2, 0) |-> TriangleAt(k - 1)]
\* screen raises on a vertex of one of the triangles of the mesh
ScreenRaisesOn(ts) ==
    \E n \in 1..Len(ts) : \E k \in raising.screen : \E j \in 1..3 : ts[n][j] = MeshVertices[k + 1]

\* C26: Mesh::dispatch hands the triangles of the mesh to raster.dispatch one by
\* one in index order: (v[idx[3k]], v[idx[3k+1]], v[idx[3k+2]]) for k = 0..n/3-1 in
\* TriangleList mode, (v[idx[i]], v[idx[i+1]], v[idx[i+2]]) for i = 0..n-3 in
\* TriangleStrip mode, none when n < 3.  When it has returned it has handed over
\* each of them once, and it raises nothing of its own: it is left by an
\* exception only when raster.dispatch raised on the triangle it was handed last.
C26_MeshAssembly ==
    mpc.fn = "dispatch" =>
        /\ IsPrefix(assembled, Assembly)
        /\ mpc.at = "returned" => assembled = Assembly
        /\ mpc.at = "raised" => ScreenRaisesOn(<<assembled[Len(assembled)]>>)
        /\ Len(mesh.indices) < 3 => assembled = <<>>
\* Mesh::dispatch has returned from a triangle list of two triangles and a
\* trailing index
C26_Witness ==
    /\ mpc.fn = "dispatch"
    /\ mpc.at = "returned"
    /\ mesh.primitive = "TriangleList"
    /\ Len(mesh.indices) = 7
    /\ Len(assembled) = 2
    /\ assembled[1] # assembled[2]
\* Mesh::dispatch has returned from a triangle strip of five indices
MeshStripReached ==
    /\ mpc.fn = "dispatch"
    /\ mpc.at = "returned"
    /\ mesh.primitive = "TriangleStrip"
    /\ Len(mesh.indices) = 5
    /\ Len(assembled) = 3

(***************************************************************************)
(* Properties of Mesh::draw.                                               *)
(***************************************************************************)
\* draw was left
DrawLeft == mpc.fn = "draw" /\ mpc.at \in {"returned", "raised"}
\* the tasks whose painter raised
Failed == {n \in 1..Len(mtasks) : mtasks[n].state = "failed"}

\* C27: once Mesh::draw has been left, every task submitted for the mesh has
\* finished, and no task invoked the painter after draw was left.
C27_DrawBlocks ==
    /\ DrawLeft => \A n \in 1..Len(mtasks) : ready(mtasks[n])
    /\ \A n \in 1..Len(mtasks) : mtasks[n].painter # "after the call"
\* What the code guarantees: when Mesh::draw returns, every task submitted for
\* the mesh has finished and none invokes the painter later.
DrawBlocksUnlessRaised ==
    /\ (mpc.fn = "draw" /\ mpc.at = "returned") => \A n \in 1..Len(mtasks) : ready(mtasks[n])
    /\ (mpc.fn = "draw" /\ mpc.err = "none") =>
           \A n \in 1..Len(mtasks) : mtasks[n].painter # "after the call"

\* C28: when the painter raised inside a task of the mesh, Mesh::draw does not
\* return: it is left by the error of the first such task, after every task of
\* the mesh has finished.
C28_DrawPropagates ==
    (DrawLeft /\ Failed # {} /\ mpc.err # "screen") =>
        /\ mpc.at = "raised"
        /\ mpc.err = "painter"
        /\ \A n \in 1..Len(mtasks) : ready(mtasks[n])
\* What the code guarantees: Mesh::draw waits for every task and returns, whether
\* or not a task failed.
DrawReturnsDespiteFailure ==
    (DrawLeft /\ mpc.err # "screen") =>
        /\ mpc.at = "returned"
        /\ mpc.err = "none"
        /\ \A n \in 1..Len(mtasks) : ready(mtasks[n])

\* C29: when a callback raised while a triangle of the mesh was processed, a
\* future of that triangle holds the error, the worker that ran the task is back
\* serving tasks, and the tasks of the other triangles are not touched: each is
\* queued, running or finished with a value unless its own painter raised.
C29_ErrorInFuture ==
    /\ mpc.at = "raised" =>
           \E n \in Failed : mtasks[n].of = Len(assembled)
    /\ \A n \in Failed :
           /\ \E j \in 1..3 : \E k \in raising.painter : mtasks[n].t[j] = MeshVertices[k + 1]
           /\ running[mtasks[n].by] # n
\* What the code guarantees: an error raised inside a task is held by the future
\* of that task, and the worker that ran it is back serving tasks; an error
\* raised by screen in Raster::dispatch leaves the call on the host's thread.
TaskErrorInFuture ==
    /\ mpc.at = "raised" =>
           /\ mpc.err = "screen"
           /\ ScreenRaisesOn(<<assembled[Len(assembled)]>>)
           /\ \A n \in 1..Len(mtasks) : mtasks[n].of # Len(assembled)
    /\ \A n \in 1..Len(mtasks) :
           /\ mtasks[n].state = "failed" <=>
                  /\ mtasks[n].painter # "none"
                  /\ \E j \in 1..3 : \E k \in raising.painter :
                         mtasks[n].t[j] = MeshVertices[k + 1]
           /\ ready(mtasks[n]) => running[mtasks[n].by] # n
\* a worker ran a task whose painter raised, and then a task that finished
ServedAfterFailure ==
    \E n, m \in 1..Len(mtasks) :
        /\ n < m
        /\ mtasks[n].state = "failed"
        /\ mtasks[m].state = "done"
        /\ mtasks[m].by = mtasks[n].by
\* a triangle of the mesh was bisected: several tasks were submitted for it
BisectedInDraw ==
    \E n, m \in 1..Len(mtasks) : n # m /\ mtasks[n].of = mtasks[m].of

(***************************************************************************)
(* Properties of the ownership of Plane.                                   *)
(***************************************************************************)
\* the live objects that own buffer b
Owners(b) == {o \in Objects : Alive(o) /\ objs[o].owns /\ objs[o].data = b}
\* the objects, live or destroyed, that were given buffer b
Holders(b) == {o \in Objects : objs[o].state # "none" /\ objs[o].data = b}
\* a move constructor was given a moved-from object
MovedTwice == \E o \in Objects : objs[o].from = "move of moved-from"

\* C31: every buffer has exactly one owning Plane until it is freed, it is freed
\* at most once and only when its owner is destroyed, the buffer of a copy is
\* not the buffer of any other object, and the destruction of a moved-from Plane
\* frees nothing.
C31_ExclusiveOwnership ==
    \A b \in Buffers :
        /\ heap[b].frees <= 1
        /\ heap[b].state = "live" => Cardinality(Owners(b)) = 1
        /\ heap[b].state = "freed" => Owners(b) = {}
        /\ \A o \in Holders(b) : objs[o].from = "copy" =>
               \A u \in Holders(b) \ {o} : objs[u].from \in {"move", "move of moved-from"}
\* What the code guarantees: the same, as long as no object is moved from twice.
ExclusiveUnlessMovedTwice ==
    ~MovedTwice =>
        \A b \in Buffers :
            /\ heap[b].frees <= 1
            /\ heap[b].state = "live" => Cardinality(Owners(b)) = 1
            /\ heap[b].state = "freed" => Owners(b) = {}
            /\ Cardinality({o \in Holders(b) : objs[o].from \in {"extents", "copy"}}) <= 1
\* a buffer was freed twice
FreedTwice == \E b \in Buffers : heap[b].frees = 2

(***************************************************************************)
(* Properties of Sampler::at.                                              *)
(***************************************************************************)
\* the integer n as a std::uint32_t
Cell(n) == <<n \div Half, n % Half>>
\* the coordinates of the cells of the plane
InPlane(c) ==
    \E i \in 0..(plane.width - 1), j \in 0..(plane.height - 1) : c = <<Cell(i), Cell(j)>>
\* u * extent, in units of 1/Den, held between 0 and extent - 1
Held(u, extent) ==
    IF u.k = "inf" THEN (IF u.n > 0 THEN (extent - 1) * Den ELSE 0)
    ELSE IF u.n * extent < 0 THEN 0
    ELSE IF u.n * extent > (extent - 1) * Den THEN (extent - 1) * Den
    ELSE u.n * extent
Floor(n) == n \div Den
Ceil(n) == (n + Den - 1) \div Den

\* C32: whatever u and v are, Sampler::at calls Plane::at on cells of the plane
\* only, and no call throws the out-of-range error.
C32_SamplerInBounds ==
    sample.pc \in {"returned", "range_error"} =>
        /\ sample.pc = "returned"
        /\ \A i \in 1..Len(sample.reads) : InPlane(sample.reads[i])
\* What the code guarantees: the same for every u that is not a NaN, v being any
\* double.
SamplerInBoundsUnlessNaN ==
    (sample.pc \in {"returned", "range_error"} /\ sample.x.k # "nan") =>
        /\ sample.pc = "returned"
        /\ Len(sample.reads) = 4
        /\ \A i \in 1..Len(sample.reads) : InPlane(sample.reads[i])

\* C33: the cells Sampler::at(u, v) reads are those of the columns floor and ceil
\* of u * W held in [0, W - 1] and of the rows floor and ceil of v * H held in
\* [0, H - 1].
C33_FourNeighbours ==
    (sample.pc = "returned" /\ sample.x.k # "nan" /\ sample.y.k # "nan") =>
        LET x == Held(sample.x, plane.width)
            y == Held(sample.y, plane.height)
        IN Range(sample.reads) = {<<Cell(i), Cell(j)>> : i \in {Floor(x), Ceil(x)},
                                                         j \in {Floor(y), Ceil(y)}}
\* What the code guarantees: the columns are those of u * W held in [0, W - 1], and
\* the rows are the floor and the ceil of that same number held in [0, H - 1],
\* whatever v is.
RowsFromColumns ==
    (sample.pc = "returned" /\ sample.x.k # "nan") =>
        LET x == Held(sample.x, plane.width)
            y == IF x > (plane.height - 1) * Den THEN (plane.height - 1) * Den ELSE x
        IN Range(sample.reads) = {<<Cell(i), Cell(j)>> : i \in {Floor(x), Ceil(x)},
                                                         j \in {Floor(y), Ceil(y)}}

(***************************************************************************)
(* Properties of the worker's loop.                                        *)
(***************************************************************************)
\* worker w is in external_tasks.dequeue(), or its run() has returned
OffLocal(w) == wpc[w] \in {"wait", "woken", "exited", "destroyed"}
\* this step is worker w's get_next_task returning: a task, or the poison task
Took(w) == wpc[w] \in {"loop", "woken"} /\ wpc'[w] \in {"run", "exited"}
\* this step took the front of queue s, leaving s2
FrontOf(w, s, s2) == s # <<>> /\ cur'[w] = Head(s) /\ s2 = Tail(s)

\* C38: a worker takes from its external queue only when its local queue is
\* empty; the local queue is served from the front and filled at the back, by
\* tasks running on the worker, so that local tasks run in the order they were
\* submitted and before every task still on the external queue; and a worker
\* whose local queue holds a task is neither waiting on its external queue nor
\* out of run() on the poison task.
C38_LocalFirst ==
    /\ [](\A w \in WorkerIdx : ~q_empty(local_tasks[w]) => ~OffLocal(w))
    /\ [][\A w \in WorkerIdx :
            /\ Took(w) =>
                  IF ~q_empty(local_tasks[w])
                  THEN /\ FrontOf(w, local_tasks[w], local_tasks'[w])
                       /\ external_tasks'[w] = external_tasks[w]
                  ELSE /\ FrontOf(w, external_tasks[w], external_tasks'[w])
                       /\ local_tasks'[w] = local_tasks[w]
            /\ local_tasks'[w] # local_tasks[w] =>
                  \/ Took(w)
                  \/ /\ wpc[w] \in {"run", "batch"}
                     /\ \E t \in Tasks : local_tasks'[w] = Append(local_tasks[w], t)
            /\ Len(external_tasks'[w]) < Len(external_tasks[w]) =>
                  q_empty(local_tasks[w])]_vars

\* a worker runs a task of its local queue while its external queue holds a task
\* that was submitted before it, and the poison task behind that
C38_Witness ==
    \E w \in WorkerIdx :
        /\ wpc[w] = "run"
        /\ task[cur[w]].how = "local"
        /\ Len(external_tasks[w]) = 2
        /\ external_tasks[w][1] \in Tasks /\ external_tasks[w][1] < cur[w]
        /\ external_tasks[w][2] = NoValue

\* two tasks are on a local queue at once
TwoLocalTasks == \E w \in WorkerIdx : Len(local_tasks[w]) = 2


\* the callable of task t has been entered, or worker w is about to enter it
Started(t) == task[t].execBy # <<>> \/ \E w \in WorkerIdx : cur[w] = t
\* task t was pushed on a local queue
Local(t) == task[t].how = "local"

\* C39: tasks are not preempted.  A worker enters a callable only from
\* get_next_task, with no callable in progress on it; a task pushed on the local
\* queue of worker k by a task running on k has not started as long as the
\* submitting task has not returned; and a task that waits for the future of a
\* task it pushed on its local queue never completes (nor does that task ever
\* start).
C39_NonPreemptive ==
    /\ [](\A t \in Tasks : Local(t) =>
            /\ task[t].parent \in Tasks
            /\ task[t].target = task[t].by[2]
            /\ Started(t) => task[task[t].parent].fut = "ready"
            /\ task[task[t].parent].kind = "join" =>
                  /\ ~Started(t)
                  /\ task[t].fut = "pending"
                  /\ task[task[t].parent].fut = "pending")
    /\ [][\A w \in WorkerIdx : cur'[w] # cur[w] =>
            \/ cur[w] = NoValue /\ Took(w)
            \/ cur'[w] = NoValue /\ wpc[w] \in {"run", "ret"} /\ wpc'[w] = "loop"]_vars

\* a task waits for the future of the task it pushed on its local queue, which
\* is still there, while the destructor of the pool has enqueued the poison
\* task of the worker and waits in thr.join()
C39_Witness ==
    \E w \in WorkerIdx :
        /\ wpc[w] = "blocked"
        /\ Local(Child(cur[w]))
        /\ local_tasks[w] = <<Child(cur[w])>>
        /\ external_tasks[w] = <<NoValue>>
        /\ mainpc = [pc |-> "join", i |-> w]


(***************************************************************************)
(* Properties of the painter's locks.                                      *)
(***************************************************************************)
\* the pixels whose mutex task t holds
Locked(t) == {px \in ScreenPixels : lock[px] = t}

\* C40: a task holds at most one pixel lock, that of the pixel of the painter
\* call it is in, and holds none while it waits for a lock or is between two
\* painter calls; so a task that waits for a lock waits for a task that is not
\* waiting, and under fair scheduling every painter call that waits for the lock
\* of its pixel acquires it.
C40_OneLockAtATime ==
    /\ [](\A t \in Painters :
            /\ Cardinality(Locked(t)) <= 1
            /\ Locked(t) # {} => InSection(t) /\ Locked(t) = {Current(t).px}
            /\ ptask[t].pc = "lock" =>
                  /\ Locked(t) = {}
                  /\ lock[Current(t).px] # NoHolder => InSection(lock[Current(t).px]))
    /\ \A t \in Painters :
          (ptask[t].pc = "lock") ~> (ptask[t].pc = "test" /\ lock[Current(t).px] = t)

\* a painter call waits for the lock of its pixel while the other task holds it
C40_Witness ==
    \E t, u \in Painters :
        /\ ptask[t].pc = "lock"
        /\ lock[Current(t).px] = u
        /\ u # t
        /\ Len(ptask[u].list) > 1

====
